---- MODULE Spec2Model ----
(***************************************************************************)
(* A model of csvq's reference scopes, record frames and field-index      *)
(* caches (lib/query/reference_scope.go) and of its format encoders        *)
(* (lib/query/encode.go).                                                  *)
(*                                                                         *)
(* BlockScope and NodeScope values are structs of Go maps: copying the     *)
(* struct copies the map references, so a block is identified by the       *)
(* instance it refers to.  Block and node instances live in blockHeap and  *)
(* nodeHeap; a ReferenceScope holds sequences of instance identities, the  *)
(* innermost at index 1 (Go index 0).                                      *)
(***************************************************************************)
EXTENDS Integers, Sequences, FiniteSets, TLC

(***************************************************************************)
(* Bounds of the model.                                                    *)
(***************************************************************************)
MaxBlocks == 2
MaxNodes == 2
MaxScopes == 2
MaxPoolCopies == 2
MaxRecords == 17
MaxColumns == 2
MaxOuterFrames == 1
MaxWorkers == 2
MaxCacheEntries == 10
MaxCursorRows == 2
MaxTextRecords == 2
MaxRunes == 4
MaxSetting == 2
MaxNumCPU == 3
MaxViewRecords == 2
MaxLateCalls == 1
MaxCandidates == 3
MaxNameWidth == 2
MaxWidth == 5
MaxLine == 2

BlockIds == 1..MaxBlocks
NodeIds == 1..MaxNodes
ScopeIds == 1..MaxScopes

(***************************************************************************)
(* Keys and entries of the maps.  Keys are the normalised names the maps   *)
(* are keyed by.                                                           *)
(***************************************************************************)
Names == {"a"}
Absent == "absent"
Vals == {"v1", "v2"}
EvalError == "eval error"
Views == {"view1", "view2"}
Paths == {"path1", "path2"}
CursorEntry == "cursor"
PseudoCursorEntry == "pseudo cursor"
ScalarFunction == "scalar function"
AggregateFunction == "aggregate function"

BlockKinds == {"variables", "temporaryTables", "cursors", "functions"}
NodeKinds == {"inlineTables", "aliases"}

NoError == "nil"
UndeclaredVariableError == "variable is undeclared"
UndeclaredTemporaryTableError == "temporary table is undeclared"
FunctionNotExistError == "function does not exist"
UndefinedInLineTableError == "inline table is undefined"
TableNotLoadedError == "table is not loaded"
RedeclaredError == "redeclared"

VARIABLES
    blockHeap,   \* block instance -> its four maps
    blockAlloc,  \* number of block instances NewBlockScope has made
    blockPool,   \* blockScopePool: block instance -> copies held by the pool
    nodeHeap,    \* node instance -> its two maps
    nodeAlloc,   \* number of node instances NewNodeScope has made
    nodePool,    \* nodeScopePool: node instance -> copies held by the pool
    scopes,      \* the ReferenceScope objects
    kind,        \* the map of BlockScope / NodeScope the run exercises
    ret          \* the last call and what it returned

scopeVars == <<blockHeap, blockAlloc, blockPool, nodeHeap, nodeAlloc, nodePool,
               scopes, kind, ret>>

VARIABLES
    encOpt,        \* EncodeView's inputs: the export options and the view's size
    encPc,         \* where the encoder is
    encIdx,        \* the index of the loop the encoder is in
    ctxErr,        \* ctx.Err()
    encErr,        \* the encoder's variable err
    encRet,        \* the error the encoder returned
    encConverted,  \* records converted by a record loop
    encWritten,    \* records handed to the output writer
    encHeader,     \* the header line was handed to the output writer
    encSeen,       \* the ctx.Err() a cancellation check found
    cancelAt,      \* the loop and index the encoder was at when ctx was cancelled
    encLate        \* the last record processed after ctx was cancelled

encVars == <<encOpt, encPc, encIdx, ctxErr, encErr, encRet, encConverted,
             encWritten, encHeader, encSeen, cancelAt, encLate>>

VARIABLES
    cacheHeap,     \* FieldIndexCache object -> its fields
    cacheAlloc,    \* number of FieldIndexCache objects made
    workerScope,   \* worker -> the scope it evaluates its record in
    workerPc,      \* worker -> where it is
    pendingAdd,    \* worker -> the FieldIndexCache.Add it is about to make
    cacheWriters   \* FieldIndexCache object -> the workers that called Add on it

workerVars == <<cacheHeap, cacheAlloc, workerScope, workerPc, pendingAdd,
                cacheWriters>>

VARIABLES
    viewHeap,         \* table -> its view's contents and its FileInfo's fields
    uncomittedViews,  \* the set the last commit or rollback was called with
    stdinView         \* the session's copy of the stdin view

tableVars == <<viewHeap, uncomittedViews, stdinView>>

VARIABLES
    cvIn,    \* the function applied and its arguments
    cvOut    \* what it returned or handed on

convertVars == <<cvIn, cvOut>>

VARIABLES
    cursorHeap,  \* block instance -> name -> the Cursor declared there
    fetched      \* what the last FETCH got

cursorVars == <<cursorHeap, fetched>>

VARIABLES
    flags,    \* the session's Flags
    flagErr,  \* what the last setter of Flags returned
    NumCPU,   \* runtime.NumCPU() of the machine
    location  \* the package's time zone

flagVars == <<flags, flagErr, NumCPU, location>>

VARIABLES
    viewLen   \* view -> the number of its records

iterVars == <<viewLen>>

VARIABLES
    completer,   \* the line editor's opCompleter
    runeBuffer   \* the line editor's RuneBuffer

lineVars == <<completer, runeBuffer>>

restVars ==
    <<tableVars, convertVars, cursorVars, flagVars, iterVars, lineVars>>

vars == <<scopeVars, encVars, workerVars, restVars>>

Range(f) == {f[i] : i \in DOMAIN f}

EmptyMap == [n \in Names |-> Absent]

NewBlockScope ==
    [variables |-> EmptyMap, temporaryTables |-> EmptyMap,
     cursors |-> EmptyMap, functions |-> EmptyMap]

NewNodeScope == [inlineTables |-> EmptyMap, aliases |-> EmptyMap]

\* BlockScope.Clear: the four maps are emptied in place.
BlockScopeClear(b) ==
    [b EXCEPT !.variables = EmptyMap, !.temporaryTables = EmptyMap,
              !.cursors = EmptyMap, !.functions = EmptyMap]

\* NodeScope.Clear
NodeScopeClear(n) == [n EXCEPT !.inlineTables = EmptyMap, !.aliases = EmptyMap]

\* The fields of a ReferenceScope that every constructor copies from its
\* receiver: 0 is nil (the zero time for now); a file-path cache or a time
\* made by CreateNode is named by the scope it was made for.
NoEnv == [Tx |-> 0, cachedFilePath |-> 0, now |-> 0, RecursiveTable |-> 0,
          RecursiveTmpView |-> 0, RecursiveCount |-> 0]

\* NewReferenceScopeWithBlock(tx, scope) sets Tx only.
NewEnv == [NoEnv EXCEPT !.Tx = 1]

\* CreateNode makes the file-path cache and takes the time if the receiver
\* has none.
NodeEnv(env, t) ==
    [env EXCEPT !.cachedFilePath = IF @ = 0 THEN t ELSE @,
                !.now = IF @ = 0 THEN t ELSE @]

NoScope == [blocks |-> <<>>, nodes |-> <<>>, Records |-> <<>>, origin |-> "none",
            env |-> NoEnv]

Exists(s) == scopes[s] # NoScope

\* The last call: the method, its receiver (for a constructor, the scope it
\* returned, val telling whether its block or node came out of the pool), its
\* arguments and the error it returned.  hit is the index of the block at
\* which a walk over the blocks ended (0: at none).  For a Close or Clear
\* call, blocks is the receiver's block stack and name, val a variable its
\* current block held when the call was made.
RetWalk(op, s, n, v, e, h) ==
    [op |-> op, scope |-> s, name |-> n, val |-> v, err |-> e, hit |-> h,
     blocks |-> <<>>]

Ret(op, s, n, v, e) == RetWalk(op, s, n, v, e, 0)

FromPool(pool, i) == IF pool[i] > 0 THEN "pooled" ELSE "new"

(***************************************************************************)
(* The pools.  sync.Pool.Get hands out an instance it holds, removing it,  *)
(* or a new one made by New; sync.Pool.Put adds the instance (the pool may *)
(* drop an instance at any time, which is the same as Get making a new     *)
(* one).                                                                   *)
(***************************************************************************)
PoolGetChoices(pool, alloc, max) ==
    {i \in 1..max : pool[i] > 0} \cup (IF alloc < max THEN {alloc + 1} ELSE {})

PoolAfterGet(pool, i) == IF pool[i] > 0 THEN [pool EXCEPT ![i] = @ - 1] ELSE pool

AllocAfterGet(alloc, i) == IF i > alloc THEN i ELSE alloc

PoolAfterPut(pool, i) ==
    IF pool[i] < MaxPoolCopies THEN [pool EXCEPT ![i] = @ + 1] ELSE pool

\* A Get that leaves the instance it hands out in the pool.
GetBlockScopeKeepingPooled(b) ==
    /\ b \in PoolGetChoices(blockPool, blockAlloc, MaxBlocks)
    /\ blockPool' = blockPool
    /\ blockAlloc' = AllocAfterGet(blockAlloc, b)

\* GetBlockScope: b is the instance returned.
GetBlockScope(b) ==
    /\ b \in PoolGetChoices(blockPool, blockAlloc, MaxBlocks)
    /\ blockPool' = PoolAfterGet(blockPool, b)
    /\ blockAlloc' = AllocAfterGet(blockAlloc, b)

\* PutBlockScope: scope.Clear(), then blockScopePool.Put(scope).
PutBlockScope(b) ==
    /\ blockHeap' = [blockHeap EXCEPT ![b] = BlockScopeClear(@)]
    /\ blockPool' = PoolAfterPut(blockPool, b)

GetNodeScope(n) ==
    /\ n \in PoolGetChoices(nodePool, nodeAlloc, MaxNodes)
    /\ nodePool' = PoolAfterGet(nodePool, n)
    /\ nodeAlloc' = AllocAfterGet(nodeAlloc, n)

PutNodeScope(n) ==
    /\ nodeHeap' = [nodeHeap EXCEPT ![n] = NodeScopeClear(@)]
    /\ nodePool' = PoolAfterPut(nodePool, n)

(***************************************************************************)
(* Constructors.  t is the ReferenceScope object that is allocated.        *)
(***************************************************************************)
NewReferenceScope(t) ==
    /\ ~Exists(t)
    /\ \E b \in BlockIds :
          /\ GetBlockScope(b)
          /\ scopes' = [scopes EXCEPT ![t] =
                           [blocks |-> <<b>>, nodes |-> <<>>, Records |-> <<>>,
                            origin |-> "root", env |-> NewEnv]]
          /\ ret' = Ret("NewReferenceScope", t, "", FromPool(blockPool, b), NoError)
    /\ UNCHANGED <<blockHeap, nodeHeap, nodeAlloc, nodePool, kind, encVars, workerVars, restVars>>

\* A CreateChild whose new block takes the place of the receiver's current
\* block.
CreateChildInPlaceOfCurrent(s, t) ==
    /\ Exists(s) /\ ~Exists(t)
    /\ \E b \in BlockIds :
          /\ GetBlockScope(b)
          /\ scopes' = [scopes EXCEPT ![t] =
                           [blocks |-> <<b>> \o Tail(scopes[s].blocks),
                            nodes |-> <<>>, Records |-> <<>>, origin |-> "child",
                            env |-> scopes[s].env]]
          /\ ret' = Ret("CreateChild", t, "", FromPool(blockPool, b), NoError)
    /\ UNCHANGED <<blockHeap, nodeHeap, nodeAlloc, nodePool, kind, encVars,
                   workerVars, restVars>>

\* A CreateChild that hands the receiver's node stack and record frames to
\* the child.
CreateChildSharingNodes(s, t) ==
    /\ Exists(s) /\ ~Exists(t)
    /\ \E b \in BlockIds :
          /\ GetBlockScope(b)
          /\ scopes' = [scopes EXCEPT ![t] =
                           [blocks |-> <<b>> \o scopes[s].blocks,
                            nodes |-> scopes[s].nodes,
                            Records |-> scopes[s].Records, origin |-> "child",
                            env |-> scopes[s].env]]
          /\ ret' = Ret("CreateChild", t, "", FromPool(blockPool, b), NoError)
    /\ UNCHANGED <<blockHeap, nodeHeap, nodeAlloc, nodePool, kind, encVars,
                   workerVars, restVars>>

CreateChild(s, t) ==
    /\ Exists(s) /\ ~Exists(t)
    /\ \E b \in BlockIds :
          /\ GetBlockScope(b)
          /\ scopes' = [scopes EXCEPT ![t] =
                           [blocks |-> <<b>> \o scopes[s].blocks, nodes |-> <<>>,
                            Records |-> <<>>, origin |-> "child",
                            env |-> scopes[s].env]]
          /\ ret' = Ret("CreateChild", t, "", FromPool(blockPool, b), NoError)
    /\ UNCHANGED <<blockHeap, nodeHeap, nodeAlloc, nodePool, kind, encVars, workerVars, restVars>>

CreateNode(s, t) ==
    /\ Exists(s) /\ ~Exists(t)
    /\ \E n \in NodeIds :
          /\ GetNodeScope(n)
          /\ scopes' = [scopes EXCEPT ![t] =
                           [blocks |-> scopes[s].blocks,
                            nodes |-> <<n>> \o scopes[s].nodes,
                            Records |-> scopes[s].Records, origin |-> "node",
                            env |-> NodeEnv(scopes[s].env, t)]]
          /\ ret' = Ret("CreateNode", t, "", FromPool(nodePool, n), NoError)
    /\ UNCHANGED <<blockHeap, blockAlloc, blockPool, nodeHeap, kind, encVars, workerVars, restVars>>

Global(s) == scopes[s].blocks[Len(scopes[s].blocks)]

CurrentBlock(s) == scopes[s].blocks[1]

(***************************************************************************)
(* The walk every read and every walk-up write makes:                      *)
(*     for i := range rs.blocks { if <block i holds n> { return ... } }    *)
(* The index of the first block, from index i on, whose map holds n; 0     *)
(* when none does.                                                         *)
(***************************************************************************)
RECURSIVE LastHit(_, _, _, _)
LastHit(blocks, field, n, i) ==
    IF i > Len(blocks) THEN 0
    ELSE LET j == Len(blocks) + 1 - i
         IN  IF blockHeap[blocks[j]][field][n] # Absent THEN j
             ELSE LastHit(blocks, field, n, i + 1)

RECURSIVE FirstHit(_, _, _, _)
FirstHit(blocks, field, n, i) ==
    IF i > Len(blocks) THEN 0
    ELSE IF blockHeap[blocks[i]][field][n] # Absent THEN i
         ELSE FirstHit(blocks, field, n, i + 1)

(***************************************************************************)
(* The maps' own methods.  Add / Declare: the entry is stored; when the    *)
(* map already holds the name the call is either rejected or stores the    *)
(* new entry.  Each outcome is the map afterwards and the error returned.  *)
(***************************************************************************)
MapAdd(m, n, v) ==
    IF m[n] = Absent
    THEN {[map |-> [m EXCEPT ![n] = v], err |-> NoError]}
    ELSE {[map |-> m, err |-> RedeclaredError],
          [map |-> [m EXCEPT ![n] = v], err |-> NoError]}

\* VariableMap.Declare: the initial value is evaluated, then added.
VariableMapDeclare(m, n, e) ==
    IF e = EvalError THEN {[map |-> m, err |-> EvalError]} ELSE MapAdd(m, n, e)

\* ViewMap.Set
MapSet(m, n, v) == [m EXCEPT ![n] = v]

\* What a data operation on the blocks leaves alone.
BlockDataFrame ==
    UNCHANGED <<blockAlloc, blockPool, nodeHeap, nodeAlloc, nodePool, scopes, kind, encVars, workerVars, restVars>>

NodeDataFrame ==
    UNCHANGED <<blockHeap, blockAlloc, blockPool, nodeAlloc, nodePool, scopes, kind, encVars, workerVars, restVars>>

(***************************************************************************)
(* Variables                                                               *)
(***************************************************************************)
\* A declaration that targets the outermost block (rs.Global()).
DeclareVariableInGlobal(s, n, e) ==
    /\ Exists(s) /\ kind = "variables"
    /\ \E o \in VariableMapDeclare(blockHeap[Global(s)].variables, n, e) :
          /\ blockHeap' = [blockHeap EXCEPT ![Global(s)].variables = o.map]
          /\ ret' = Ret("DeclareVariable", s, n, e, o.err)
    /\ BlockDataFrame

DeclareVariable(s, n, e) ==
    /\ Exists(s) /\ kind = "variables"
    /\ \E o \in VariableMapDeclare(blockHeap[scopes[s].blocks[1]].variables, n, e) :
          /\ blockHeap' = [blockHeap EXCEPT ![scopes[s].blocks[1]].variables = o.map]
          /\ ret' = Ret("DeclareVariable", s, n, e, o.err)
    /\ BlockDataFrame

DeclareVariableDirectly(s, n, v) ==
    /\ Exists(s) /\ kind = "variables"
    /\ \E o \in MapAdd(blockHeap[scopes[s].blocks[1]].variables, n, v) :
          /\ blockHeap' = [blockHeap EXCEPT ![scopes[s].blocks[1]].variables = o.map]
          /\ ret' = Ret("DeclareVariableDirectly", s, n, v, o.err)
    /\ BlockDataFrame

GetVariableValue(s, n) ==
    LET i == FirstHit(scopes[s].blocks, "variables", n, 1)
    IN  IF i = 0 THEN [val |-> Absent, err |-> UndeclaredVariableError]
        ELSE [val |-> blockHeap[scopes[s].blocks[i]].variables[n], err |-> NoError]


\* A substitution that stores the value in block 0 once any block holds n.
SubstituteInCurrentBlock(op, s, n, v) ==
    LET i == FirstHit(scopes[s].blocks, "variables", n, 1)
    IN  IF i = 0
        THEN /\ ret' = Ret(op, s, n, Absent, UndeclaredVariableError)
             /\ UNCHANGED blockHeap
        ELSE /\ ret' = RetWalk(op, s, n, v, NoError, i)
             /\ blockHeap' = [blockHeap EXCEPT ![scopes[s].blocks[1]].variables[n] = v]

\* The walk with VariableMap.Set: the first block that holds n takes v.
SubstituteWalk(op, s, n, v) ==
    LET i == FirstHit(scopes[s].blocks, "variables", n, 1)
    IN  IF i = 0
        THEN /\ ret' = Ret(op, s, n, Absent, UndeclaredVariableError)
             /\ UNCHANGED blockHeap
        ELSE /\ ret' = RetWalk(op, s, n, v, NoError, i)
             /\ blockHeap' = [blockHeap EXCEPT ![scopes[s].blocks[i]].variables[n] = v]

SubstituteVariable(s, n, e) ==
    /\ Exists(s) /\ kind = "variables"
    /\ IF e = EvalError
       THEN /\ ret' = Ret("SubstituteVariable", s, n, Absent, EvalError)
            /\ UNCHANGED blockHeap
       ELSE SubstituteWalk("SubstituteVariable", s, n, e)
    /\ BlockDataFrame

SubstituteVariableDirectly(s, n, v) ==
    /\ Exists(s) /\ kind = "variables"
    /\ SubstituteWalk("SubstituteVariableDirectly", s, n, v)
    /\ BlockDataFrame

\* A disposal that looks at block 0 only.
DisposeVariableInCurrentBlock(s, n) ==
    /\ Exists(s) /\ kind = "variables"
    /\ IF blockHeap[scopes[s].blocks[1]].variables[n] = Absent
       THEN /\ ret' = Ret("DisposeVariable", s, n, Absent, UndeclaredVariableError)
            /\ UNCHANGED blockHeap
       ELSE /\ ret' = RetWalk("DisposeVariable", s, n, Absent, NoError, 1)
            /\ blockHeap' =
                  [blockHeap EXCEPT ![scopes[s].blocks[1]].variables[n] = Absent]
    /\ BlockDataFrame

DisposeVariable(s, n) ==
    /\ Exists(s) /\ kind = "variables"
    /\ LET i == FirstHit(scopes[s].blocks, "variables", n, 1)
       IN  IF i = 0
           THEN /\ ret' = Ret("DisposeVariable", s, n, Absent, UndeclaredVariableError)
                /\ UNCHANGED blockHeap
           ELSE /\ ret' = RetWalk("DisposeVariable", s, n, Absent, NoError, i)
                /\ blockHeap' =
                      [blockHeap EXCEPT ![scopes[s].blocks[i]].variables[n] = Absent]
    /\ BlockDataFrame

(***************************************************************************)
(* Temporary tables, cursors, functions                                    *)
(***************************************************************************)
\* view v is stored under its path n
SetTemporaryTable(s, n, v) ==
    /\ Exists(s) /\ kind = "temporaryTables"
    /\ blockHeap' = [blockHeap EXCEPT ![scopes[s].blocks[1]].temporaryTables =
                        MapSet(@, n, v)]
    /\ ret' = Ret("SetTemporaryTable", s, n, v, NoError)
    /\ BlockDataFrame

GetTemporaryTableValue(s, n) ==
    LET i == FirstHit(scopes[s].blocks, "temporaryTables", n, 1)
    IN  IF i = 0 THEN [val |-> Absent, err |-> UndeclaredTemporaryTableError]
        ELSE [val |-> blockHeap[scopes[s].blocks[i]].temporaryTables[n],
              err |-> NoError]


\* A cursor declaration that targets the outermost block.
DeclareCursorInGlobal(s, n) ==
    /\ Exists(s) /\ kind = "cursors"
    /\ \E o \in MapAdd(blockHeap[Global(s)].cursors, n, CursorEntry) :
          /\ blockHeap' = [blockHeap EXCEPT ![Global(s)].cursors = o.map]
          /\ ret' = Ret("DeclareCursor", s, n, CursorEntry, o.err)
    /\ BlockDataFrame

DeclareCursor(s, n) ==
    /\ Exists(s) /\ kind = "cursors"
    /\ \E o \in MapAdd(blockHeap[scopes[s].blocks[1]].cursors, n, CursorEntry) :
          /\ blockHeap' = [blockHeap EXCEPT ![scopes[s].blocks[1]].cursors = o.map]
          /\ ret' = Ret("DeclareCursor", s, n, CursorEntry, o.err)
    /\ BlockDataFrame

AddPseudoCursor(s, n) ==
    /\ Exists(s) /\ kind = "cursors"
    /\ \E o \in MapAdd(blockHeap[scopes[s].blocks[1]].cursors, n, PseudoCursorEntry) :
          /\ blockHeap' = [blockHeap EXCEPT ![scopes[s].blocks[1]].cursors = o.map]
          /\ ret' = Ret("AddPseudoCursor", s, n, PseudoCursorEntry, o.err)
    /\ BlockDataFrame

DeclareFunction(s, n) ==
    /\ Exists(s) /\ kind = "functions"
    /\ \E o \in MapAdd(blockHeap[scopes[s].blocks[1]].functions, n, ScalarFunction) :
          /\ blockHeap' = [blockHeap EXCEPT ![scopes[s].blocks[1]].functions = o.map]
          /\ ret' = Ret("DeclareFunction", s, n, ScalarFunction, o.err)
    /\ BlockDataFrame

DeclareAggregateFunction(s, n) ==
    /\ Exists(s) /\ kind = "functions"
    /\ \E o \in MapAdd(blockHeap[scopes[s].blocks[1]].functions, n, AggregateFunction) :
          /\ blockHeap' = [blockHeap EXCEPT ![scopes[s].blocks[1]].functions = o.map]
          /\ ret' = Ret("DeclareAggregateFunction", s, n, AggregateFunction, o.err)
    /\ BlockDataFrame

GetFunctionValue(s, n) ==
    LET i == FirstHit(scopes[s].blocks, "functions", n, 1)
    IN  IF i = 0 THEN [val |-> Absent, err |-> FunctionNotExistError]
        ELSE [val |-> blockHeap[scopes[s].blocks[i]].functions[n], err |-> NoError]


(***************************************************************************)
(* Inline tables and aliases: node 0 of the receiver.  A scope with no     *)
(* node has no nodes[0]: the call panics and is not a step.                *)
(***************************************************************************)
StoreInlineTable(s, n, v) ==
    /\ Exists(s) /\ kind = "inlineTables"
    /\ Len(scopes[s].nodes) > 0
    /\ \E o \in MapAdd(nodeHeap[scopes[s].nodes[1]].inlineTables, n, v) :
          /\ nodeHeap' = [nodeHeap EXCEPT ![scopes[s].nodes[1]].inlineTables = o.map]
          /\ ret' = Ret("StoreInlineTable", s, n, v, o.err)
    /\ NodeDataFrame

AddAlias(s, n, v) ==
    /\ Exists(s) /\ kind = "aliases"
    /\ Len(scopes[s].nodes) > 0
    /\ \E o \in MapAdd(nodeHeap[scopes[s].nodes[1]].aliases, n, v) :
          /\ nodeHeap' = [nodeHeap EXCEPT ![scopes[s].nodes[1]].aliases = o.map]
          /\ ret' = Ret("AddAlias", s, n, v, o.err)
    /\ NodeDataFrame

\* InlineTableMap.Set: the query of the inline table is run, which may
\* fail, and the view is stored.
SetInlineTable(s, n, v) ==
    /\ Exists(s) /\ kind = "inlineTables"
    /\ Len(scopes[s].nodes) > 0
    /\ \E o \in MapAdd(nodeHeap[scopes[s].nodes[1]].inlineTables, n, v)
                \cup {[map |-> nodeHeap[scopes[s].nodes[1]].inlineTables,
                       err |-> EvalError]} :
          /\ nodeHeap' = [nodeHeap EXCEPT ![scopes[s].nodes[1]].inlineTables = o.map]
          /\ ret' = Ret("SetInlineTable", s, n, v, o.err)
    /\ NodeDataFrame

\* A walk over the nodes that goes on to the outermost node holding n.
RECURSIVE LastNodeHit(_, _, _, _)
LastNodeHit(nodes, field, n, i) ==
    IF i > Len(nodes) THEN 0
    ELSE LET j == LastNodeHit(nodes, field, n, i + 1)
         IN  IF j # 0 THEN j
             ELSE IF nodeHeap[nodes[i]][field][n] # Absent THEN i ELSE 0

\* for i := range rs.nodes { if <node i holds n> { return ... } }: the
\* index of the first node, from index i on, whose map holds n; 0 when
\* none does.
RECURSIVE FirstNodeHit(_, _, _, _)
FirstNodeHit(nodes, field, n, i) ==
    IF i > Len(nodes) THEN 0
    ELSE IF nodeHeap[nodes[i]][field][n] # Absent THEN i
         ELSE FirstNodeHit(nodes, field, n, i + 1)

GetInlineTable(s, n) ==
    LET i == FirstNodeHit(scopes[s].nodes, "inlineTables", n, 1)
    IN  IF i = 0 THEN [val |-> Absent, err |-> UndefinedInLineTableError]
        ELSE [val |-> nodeHeap[scopes[s].nodes[i]].inlineTables[n],
              err |-> NoError]

InlineTableExists(s, n) ==
    FirstNodeHit(scopes[s].nodes, "inlineTables", n, 1) # 0

GetAlias(s, n) ==
    LET i == FirstNodeHit(scopes[s].nodes, "aliases", n, 1)
    IN  IF i = 0 THEN [val |-> Absent, err |-> TableNotLoadedError]
        ELSE [val |-> nodeHeap[scopes[s].nodes[i]].aliases[n], err |-> NoError]

(***************************************************************************)
(* Clearing and closing.  The ReferenceScope object itself is not changed  *)
(* by these methods: what becomes of it is the caller's matter (scopes' is *)
(* set by the specification).                                              *)
(***************************************************************************)
HeldName(b) ==
    IF \E n \in Names : blockHeap[b].variables[n] # Absent
    THEN CHOOSE n \in Names : blockHeap[b].variables[n] # Absent
    ELSE ""

RetClose(op, s) ==
    LET n == HeldName(scopes[s].blocks[1])
    IN  [op |-> op, scope |-> s, name |-> n,
         val |-> IF n = "" THEN Absent ELSE blockHeap[scopes[s].blocks[1]].variables[n],
         err |-> NoError, hit |-> 0, blocks |-> scopes[s].blocks]

ClearCurrentBlock(s) ==
    /\ Exists(s)
    /\ blockHeap' = [blockHeap EXCEPT ![CurrentBlock(s)] = BlockScopeClear(@)]
    /\ ret' = RetClose("ClearCurrentBlock", s)
    /\ UNCHANGED <<blockAlloc, blockPool, nodeHeap, nodeAlloc, nodePool, scopes, kind, encVars, workerVars, restVars>>

CloseCurrentBlock(s) ==
    /\ Exists(s)
    /\ PutBlockScope(CurrentBlock(s))
    /\ ret' = RetClose("CloseCurrentBlock", s)
    /\ UNCHANGED <<blockAlloc, nodeHeap, nodeAlloc, nodePool, kind, encVars, workerVars, restVars>>

CloseCurrentNode(s) ==
    /\ Exists(s)
    /\ Len(scopes[s].nodes) > 0
    /\ PutNodeScope(scopes[s].nodes[1])
    /\ ret' = RetClose("CloseCurrentNode", s)
    /\ UNCHANGED <<blockHeap, blockAlloc, blockPool, nodeAlloc, kind, encVars, workerVars, restVars>>

(***************************************************************************)
(* The callers.  The statement executor uses scopes lexically: the scope   *)
(* that CreateChild / NewReferenceScope returned closes its block, the     *)
(* scope that CreateNode returned closes its node, each once, when no      *)
(* scope made from it is in use any more, and the closed scope is dropped. *)
(***************************************************************************)
OwnsBlock(s) == scopes[s].origin \in {"root", "child"}

OwnsNode(s) == scopes[s].origin = "node"

BlockInUseBelow(s) ==
    \E t \in ScopeIds \ {s} : Exists(t) /\ CurrentBlock(s) \in Range(scopes[t].blocks)

NodeInUseBelow(s) ==
    \E t \in ScopeIds \ {s} :
        /\ Exists(t)
        /\ \/ scopes[s].nodes[1] \in Range(scopes[t].nodes)
           \/ /\ Len(scopes[t].blocks) > Len(scopes[s].blocks)
              /\ CurrentBlock(s) \in Range(scopes[t].blocks)

Drop(s) == scopes' = [scopes EXCEPT ![s] = NoScope]

LexicalCloseBlock(s) ==
    /\ Exists(s) /\ OwnsBlock(s) /\ ~BlockInUseBelow(s)
    /\ CloseCurrentBlock(s)
    /\ Drop(s)

LexicalCloseNode(s) ==
    /\ Exists(s) /\ OwnsNode(s) /\ ~NodeInUseBelow(s)
    /\ CloseCurrentNode(s)
    /\ Drop(s)

LexicalClearBlock(s) ==
    /\ Exists(s) /\ OwnsBlock(s)
    /\ ClearCurrentBlock(s)

\* The ReferenceScope object a constructor allocates: which one is immaterial.
IsFresh(t) == ~Exists(t) /\ \A u \in 1..(t - 1) : Exists(u)

Derive ==
    \E t \in ScopeIds :
        /\ IsFresh(t)
        /\ \/ \E s \in ScopeIds : CreateChild(s, t)
           \/ \E s \in ScopeIds : CreateNode(s, t)

\* A session has one root scope.
LexicalNewRoot ==
    /\ \A s \in ScopeIds : ~Exists(s)
    /\ NewReferenceScope(1)

AnyOrderNewRoot == \E t \in ScopeIds : IsFresh(t) /\ NewReferenceScope(t)

DataOps ==
    \E s \in ScopeIds, n \in Names :
        \/ \E e \in Vals \cup {EvalError} : DeclareVariable(s, n, e)
        \/ \E v \in Vals : DeclareVariableDirectly(s, n, v)
        \/ \E e \in Vals \cup {EvalError} : SubstituteVariable(s, n, e)
        \/ \E v \in Vals : SubstituteVariableDirectly(s, n, v)
        \/ DisposeVariable(s, n)
        \/ \E v \in Views : SetTemporaryTable(s, n, v)
        \/ DeclareCursor(s, n)
        \/ AddPseudoCursor(s, n)
        \/ DeclareFunction(s, n)
        \/ DeclareAggregateFunction(s, n)
        \/ \E v \in Views : StoreInlineTable(s, n, v)
        \/ \E v \in Paths : AddAlias(s, n, v)

LexicalNext ==
    \/ LexicalNewRoot
    \/ Derive
    \/ DataOps
    \/ \E s \in ScopeIds : LexicalClearBlock(s)
    \/ \E s \in ScopeIds : LexicalCloseBlock(s)
    \/ \E s \in ScopeIds : LexicalCloseNode(s)

\* The methods called in any order, also through a scope whose block or node
\* was closed before: nothing in ReferenceScope prevents it.
AnyOrderNext ==
    \/ AnyOrderNewRoot
    \/ Derive
    \/ DataOps
    \/ \E s \in ScopeIds : ClearCurrentBlock(s)
    \/ \E s \in ScopeIds : CloseCurrentBlock(s) /\ UNCHANGED scopes
    \/ \E s \in ScopeIds : CloseCurrentNode(s) /\ UNCHANGED scopes

\* The node scopes of a query inside a query: the scope of the outer query
\* makes the scope of the inner one, both define inline tables or aliases,
\* and each closes its node when it is done.
NodesNext ==
    \/ CreateNode(1, 2)
    \/ \E s \in ScopeIds, n \in Names :
          \/ \E v \in Views : SetInlineTable(s, n, v)
          \/ \E v \in Views : StoreInlineTable(s, n, v)
          \/ \E v \in Paths : AddAlias(s, n, v)
    \/ \E s \in ScopeIds : LexicalCloseNode(s)

\* The scope NewReferenceScope(tx).CreateNode() returned, the root scope
\* itself being held by nobody else.
NodesInit ==
    /\ blockHeap = [b \in BlockIds |-> NewBlockScope]
    /\ blockAlloc = 1
    /\ blockPool = [b \in BlockIds |-> 0]
    /\ nodeHeap = [n \in NodeIds |-> NewNodeScope]
    /\ nodeAlloc = 1
    /\ nodePool = [n \in NodeIds |-> 0]
    /\ scopes = [s \in ScopeIds |->
                    IF s = 1
                    THEN [blocks |-> <<1>>, nodes |-> <<1>>, Records |-> <<>>,
                          origin |-> "node", env |-> NodeEnv(NewEnv, 1)]
                    ELSE NoScope]
    /\ kind \in NodeKinds
    /\ ret = Ret("CreateNode", 1, "", "new", NoError)

\* The fields a (recursive) query has set on its scope before CreateNode.
ParentEnvs ==
    {NodeEnv([NewEnv EXCEPT !.RecursiveTable = r, !.RecursiveTmpView = r,
                            !.RecursiveCount = r], 1) : r \in {0, 1}}

\* Scope 1 is the scope CreateNode returned for a query.
ChildInit ==
    /\ blockHeap = [b \in BlockIds |-> NewBlockScope]
    /\ blockAlloc = 1
    /\ blockPool = [b \in BlockIds |-> 0]
    /\ nodeHeap = [n \in NodeIds |-> NewNodeScope]
    /\ nodeAlloc = 1
    /\ nodePool = [n \in NodeIds |-> 0]
    /\ \E e \in ParentEnvs :
          scopes = [s \in ScopeIds |->
                      IF s = 1
                      THEN [blocks |-> <<1>>, nodes |-> <<1>>, Records |-> <<>>,
                            origin |-> "node", env |-> e]
                      ELSE NoScope]
    /\ kind \in NodeKinds
    /\ ret = Ret("CreateNode", 1, "", "new", NoError)

ScopeInit ==
    /\ blockHeap = [b \in BlockIds |-> NewBlockScope]
    /\ blockAlloc = 0
    /\ blockPool = [b \in BlockIds |-> 0]
    /\ nodeHeap = [n \in NodeIds |-> NewNodeScope]
    /\ nodeAlloc = 0
    /\ nodePool = [n \in NodeIds |-> 0]
    /\ scopes = [s \in ScopeIds |-> NoScope]
    /\ kind \in BlockKinds \cup NodeKinds
    /\ ret = Ret("", 0, "", "", NoError)

(***************************************************************************)
(* The encoders of lib/query/encode.go.  A view of encOpt.recordLen        *)
(* records is encoded under the export options encOpt; the environment may *)
(* cancel the context, or let its deadline pass, at any moment.  One step  *)
(* of an encoder is what it does before its loop, one iteration of a loop, *)
(* or what it does after the loop.                                         *)
(***************************************************************************)
Formats == {"CSV", "TSV", "FIXED", "JSON", "LTSV", "GFM", "ORG", "TEXT"}

ContextCanceledErr == "context canceled"
ContextDeadlineErr == "context deadline exceeded"

ContextCanceled == "ContextCanceled"
ContextDeadlineExceeded == "ContextDeadlineExceeded"
DataEmpty == "data empty"
EmptyResultSetError == "empty result set"
DataEncodingError == "DataEncodingError"
SystemError == "SystemError"

\* The mask of the cancellation checks: i&15 == 0.
CheckMask == 15

\* A check made in the first iteration only.
AtCheckFirstOnly(i) == i = 0

AtCheck(i) == i % (CheckMask + 1) = 0

\* ConvertContextError: the error an operation returns for ctx.Err().
ConvertContextError(e) ==
    IF e = ContextDeadlineErr THEN ContextDeadlineExceeded ELSE ContextCanceled

\* EncodeView: the encoder a format is sent to.
EncoderOf(format) ==
    CASE format = "FIXED" -> "encodeFixedLengthFormat"
      [] format = "JSON" -> "encodeJson"
      [] format = "LTSV" -> "encodeLTSV"
      [] format \in {"GFM", "ORG", "TEXT"} -> "encodeText"
      [] OTHER -> "encodeCSV"

NoRecord == [pass |-> "none", idx |-> -1]

\* A record loop has processed the record at index i of loop pass: it is
\* the last one processed after the cancellation when ctx is cancelled.
LateAfter(pass, i) ==
    IF ctxErr # NoError THEN [pass |-> pass, idx |-> i] ELSE encLate

EncFrame == UNCHANGED <<encOpt, ctxErr, cancelAt, scopeVars, workerVars, restVars>>

\* return e
Return(e) ==
    /\ encPc' = "done"
    /\ encRet' = e
    /\ UNCHANGED <<encIdx, encErr, encConverted, encWritten, encHeader, encSeen,
                   encLate>>

\* if i&15 == 0 && ctx.Err() != nil { return ConvertContextError(ctx.Err()) }
Cancelled == AtCheck(encIdx) /\ ctxErr # NoError

ReturnContextError ==
    /\ encPc' = "done"
    /\ encRet' = ConvertContextError(ctxErr)
    /\ encSeen' = ctxErr
    /\ UNCHANGED <<encIdx, encErr, encConverted, encWritten, encHeader, encLate>>

\* The encoder goes on to its loop, the header line written or not.
EnterLoop(pc, header) ==
    /\ encPc' = pc
    /\ encIdx' = 0
    /\ encHeader' = header
    /\ UNCHANGED <<encErr, encRet, encConverted, encWritten, encSeen, encLate>>

\* One iteration that converts record encIdx and hands it to the writer.
ConvertAndWrite(pass, writeError) ==
    \/ /\ encConverted' = encConverted + 1
       /\ encWritten' = encWritten + 1
       /\ encIdx' = encIdx + 1
       /\ encLate' = LateAfter(pass, encIdx)
       /\ UNCHANGED <<encPc, encErr, encRet, encHeader, encSeen>>
    \/ /\ encConverted' = encConverted + 1
       /\ encLate' = LateAfter(pass, encIdx)
       /\ encPc' = "done"
       /\ encRet' = writeError
       /\ UNCHANGED <<encIdx, encErr, encWritten, encHeader, encSeen>>

\* One iteration that converts record encIdx and keeps it for later.
ConvertAndKeep(pass) ==
    /\ encConverted' = encConverted + 1
    /\ encIdx' = encIdx + 1
    /\ encLate' = LateAfter(pass, encIdx)
    /\ UNCHANGED <<encPc, encErr, encRet, encWritten, encHeader, encSeen>>

\* w.Flush() and the return after it.
FlushAndReturn ==
    /\ encPc' = "done"
    /\ \E e \in {NoError, SystemError} : encRet' = e /\ encErr' = e
    /\ UNCHANGED <<encIdx, encConverted, encWritten, encHeader, encSeen, encLate>>

Running(encoder, pc) ==
    EncoderOf(encOpt.format) = encoder /\ encPc = pc

(***************************************************************************)
(* encodeCSV                                                               *)
(***************************************************************************)
EncodeCSVStart ==
    /\ Running("encodeCSV", "start")
    /\ \/ Return(DataEncodingError)
       \/ /\ ~encOpt.withoutHeader
          /\ \/ EnterLoop("loop", TRUE)
             \/ Return(SystemError)
       \/ /\ encOpt.withoutHeader
          /\ IF encOpt.recordLen < 1 THEN Return(DataEmpty)
             ELSE EnterLoop("loop", FALSE)
    /\ EncFrame

EncodeCSVRecord ==
    /\ Running("encodeCSV", "loop")
    /\ encIdx < encOpt.recordLen
    /\ IF Cancelled
       THEN /\ encErr' = ConvertContextError(ctxErr)
            /\ encSeen' = ctxErr
            /\ encPc' = "flush"
            /\ UNCHANGED <<encIdx, encRet, encConverted, encWritten, encHeader,
                           encLate>>
       ELSE ConvertAndWrite("loop", SystemError)
    /\ EncFrame

EncodeCSVFlush ==
    /\ \/ Running("encodeCSV", "flush")
       \/ Running("encodeCSV", "loop") /\ encIdx = encOpt.recordLen
    /\ FlushAndReturn
    /\ EncFrame

(***************************************************************************)
(* encodeFixedLengthFormat                                                 *)
(***************************************************************************)
\* recordStartPos
RecordStartPos == IF encOpt.withoutHeader THEN 0 ELSE 1

EncodeFixedStart ==
    /\ Running("encodeFixedLengthFormat", "start")
    /\ IF encOpt.delimiterPositions = "nil"
       THEN IF encOpt.withoutHeader /\ encOpt.recordLen < 1
            THEN Return(DataEmpty)
            ELSE EnterLoop("measure", FALSE)
       ELSE \/ Return(DataEncodingError)
            \/ /\ encOpt.withoutHeader
               /\ IF encOpt.recordLen < 1 THEN Return(DataEmpty)
                  ELSE EnterLoop("loop", FALSE)
            \/ /\ ~encOpt.withoutHeader /\ ~encOpt.singleLine
               /\ \/ EnterLoop("loop", TRUE)
                  \/ Return(DataEncodingError)
            \/ /\ ~encOpt.withoutHeader /\ encOpt.singleLine
               /\ EnterLoop("loop", FALSE)
    /\ EncFrame

\* The measuring pass: record encIdx is converted into fieldList.
EncodeFixedMeasure ==
    /\ Running("encodeFixedLengthFormat", "measure")
    /\ encIdx < encOpt.recordLen
    /\ IF Cancelled THEN ReturnContextError ELSE ConvertAndKeep("measure")
    /\ EncFrame

\* m.GeneratePositions() and fixedlen.NewWriter
EncodeFixedGeneratePositions ==
    /\ Running("encodeFixedLengthFormat", "measure")
    /\ encIdx = encOpt.recordLen
    /\ \/ /\ encPc' = "write"
          /\ encIdx' = 0
          /\ UNCHANGED <<encErr, encRet, encConverted, encWritten, encHeader,
                         encSeen, encLate>>
       \/ Return(DataEncodingError)
    /\ EncFrame

\* The writing pass: line encIdx of fieldList is handed to the writer.
EncodeFixedWrite ==
    /\ Running("encodeFixedLengthFormat", "write")
    /\ encIdx < encOpt.recordLen + RecordStartPos
    /\ IF Cancelled THEN ReturnContextError
       ELSE \/ /\ encIdx' = encIdx + 1
               /\ IF encIdx < RecordStartPos
                  THEN encHeader' = TRUE /\ UNCHANGED <<encWritten, encLate>>
                  ELSE /\ encWritten' = encWritten + 1
                       /\ encLate' = LateAfter("write", encIdx)
                       /\ UNCHANGED encHeader
               /\ UNCHANGED <<encPc, encErr, encRet, encConverted, encSeen>>
            \/ Return(DataEncodingError)
    /\ EncFrame

\* With the delimiter positions given: one pass.
EncodeFixedRecord ==
    /\ Running("encodeFixedLengthFormat", "loop")
    /\ encIdx < encOpt.recordLen
    /\ IF Cancelled THEN ReturnContextError
       ELSE ConvertAndWrite("loop", DataEncodingError)
    /\ EncFrame

EncodeFixedFlush ==
    /\ \/ /\ Running("encodeFixedLengthFormat", "write")
          /\ encIdx = encOpt.recordLen + RecordStartPos
       \/ /\ Running("encodeFixedLengthFormat", "loop")
          /\ encIdx = encOpt.recordLen
    /\ FlushAndReturn
    /\ EncFrame

(***************************************************************************)
(* encodeJson                                                              *)
(***************************************************************************)
EncodeJsonStart ==
    /\ Running("encodeJson", "start")
    /\ EnterLoop("loop", FALSE)
    /\ EncFrame

EncodeJsonRecord ==
    /\ Running("encodeJson", "loop")
    /\ encIdx < encOpt.recordLen
    /\ IF Cancelled THEN ReturnContextError ELSE ConvertAndKeep("loop")
    /\ EncFrame

\* The records the encoder writes in one piece after its loop.
WriteAll ==
    /\ encPc' = "done"
    /\ encWritten' = encOpt.recordLen
    /\ encLate' = IF encOpt.recordLen > 0
                  THEN LateAfter("output", encOpt.recordLen - 1)
                  ELSE encLate
    /\ \E e \in {NoError, SystemError} : encRet' = e
    /\ UNCHANGED <<encIdx, encErr, encConverted, encSeen>>

\* json.ConvertTableValueToJsonStructure, Encode, WriteString, Flush
EncodeJsonOutput ==
    /\ Running("encodeJson", "loop")
    /\ encIdx = encOpt.recordLen
    /\ \/ Return(IF ctxErr # NoError THEN ConvertContextError(ctxErr)
                 ELSE DataEncodingError)
       \/ WriteAll /\ UNCHANGED encHeader
    /\ EncFrame

(***************************************************************************)
(* encodeText                                                              *)
(***************************************************************************)
EncodeTextStart ==
    /\ Running("encodeText", "start")
    /\ IF encOpt.format = "TEXT" /\ encOpt.recordLen < 1
       THEN Return(EmptyResultSetError)
       ELSE IF encOpt.withoutHeader /\ encOpt.recordLen < 1
            THEN Return(DataEmpty)
            ELSE EnterLoop("loop", FALSE)
    /\ EncFrame

EncodeTextRecord ==
    /\ Running("encodeText", "loop")
    /\ encIdx < encOpt.recordLen
    /\ IF Cancelled THEN ReturnContextError ELSE ConvertAndKeep("loop")
    /\ EncFrame

\* e.Encode(), WriteString, Flush
EncodeTextOutput ==
    /\ Running("encodeText", "loop")
    /\ encIdx = encOpt.recordLen
    /\ \/ Return(DataEncodingError)
       \/ WriteAll /\ encHeader' = ~encOpt.withoutHeader
    /\ EncFrame

(***************************************************************************)
(* encodeLTSV                                                              *)
(***************************************************************************)
EncodeLTSVStart ==
    /\ Running("encodeLTSV", "start")
    /\ IF encOpt.recordLen < 1 THEN Return(DataEmpty)
       ELSE \/ Return(DataEncodingError)
            \/ EnterLoop("loop", FALSE)
    /\ EncFrame

EncodeLTSVRecord ==
    /\ Running("encodeLTSV", "loop")
    /\ encIdx < encOpt.recordLen
    /\ IF Cancelled THEN ReturnContextError
       ELSE ConvertAndWrite("loop", DataEncodingError)
    /\ EncFrame

EncodeLTSVFlush ==
    /\ Running("encodeLTSV", "loop")
    /\ encIdx = encOpt.recordLen
    /\ FlushAndReturn
    /\ EncFrame

\* The context is cancelled, or its deadline passes, while the encoder runs.
CancelContext ==
    /\ encPc # "done"
    /\ ctxErr = NoError
    /\ ctxErr' \in {ContextCanceledErr, ContextDeadlineErr}
    /\ cancelAt' = [pass |-> encPc, idx |-> encIdx]
    /\ UNCHANGED <<encOpt, encPc, encIdx, encErr, encRet, encConverted,
                   encWritten, encHeader, encSeen, encLate, scopeVars, workerVars, restVars>>

EncodeNext ==
    \/ EncodeCSVStart
    \/ EncodeCSVRecord
    \/ EncodeCSVFlush
    \/ EncodeFixedStart
    \/ EncodeFixedMeasure
    \/ EncodeFixedGeneratePositions
    \/ EncodeFixedWrite
    \/ EncodeFixedRecord
    \/ EncodeFixedFlush
    \/ EncodeJsonStart
    \/ EncodeJsonRecord
    \/ EncodeJsonOutput
    \/ EncodeTextStart
    \/ EncodeTextRecord
    \/ EncodeTextOutput
    \/ EncodeLTSVStart
    \/ EncodeLTSVRecord
    \/ EncodeLTSVFlush
    \/ CancelContext

ExportOptions ==
    [format : Formats, withoutHeader : BOOLEAN, singleLine : BOOLEAN,
     delimiterPositions : {"nil", "given"}, recordLen : 0..MaxRecords]

\* The options an encoder does not read are left at their defaults.
EncodeInit ==
    /\ encOpt \in {o \in ExportOptions :
                      o.format # "FIXED" =>
                          ~o.singleLine /\ o.delimiterPositions = "nil"}
    /\ encPc = "start"
    /\ encIdx = 0
    /\ ctxErr = NoError
    /\ encErr = NoError
    /\ encRet = ""
    /\ encConverted = 0
    /\ encWritten = 0
    /\ encHeader = FALSE
    /\ encSeen = NoError
    /\ cancelAt = NoRecord
    /\ encLate = NoRecord

\* No encoder runs.
EncodeIdle ==
    /\ encOpt = [format |-> "CSV", withoutHeader |-> FALSE, singleLine |-> FALSE,
                 delimiterPositions |-> "nil", recordLen |-> 0]
    /\ encPc = "done"
    /\ encIdx = 0
    /\ ctxErr = NoError
    /\ encErr = NoError
    /\ encRet = ""
    /\ encConverted = 0
    /\ encWritten = 0
    /\ encHeader = FALSE
    /\ encSeen = NoError
    /\ cancelAt = NoRecord
    /\ encLate = NoRecord

(***************************************************************************)
(* Record frames and their field-index caches.  A ReferenceRecord holds a  *)
(* pointer to its FieldIndexCache: copying the record copies the pointer,  *)
(* so a cache is identified by the object, kept in cacheHeap.              *)
(***************************************************************************)
LimitToUseFieldIndexSliceChache == 8

Workers == 1..MaxWorkers
CacheIds == 1..(MaxOuterFrames + MaxWorkers)

\* Views are numbered: 0 is the view whose records the workers evaluate, j
\* the view of the j-th record frame of the scope they start from.
ViewIds == 0..MaxOuterFrames

\* A field reference, the parser.QueryExpression the caches are keyed by:
\* column column of view view.
FieldReferences == [view : ViewIds, column : 1..MaxColumns]

\* listsNil: exprs and indices are nil (an empty list made by make is not).
NewFieldIndexCache(limitToUseSlice) ==
    [limitToUseSlice |-> limitToUseSlice,
     m |-> [nil |-> TRUE, entries |-> <<>>],
     exprs |-> <<>>,
     indices |-> <<>>,
     listsNil |-> FALSE]

\* FieldIndexCache.Get
FieldIndexCacheGet(c, expr) ==
    IF ~c.m.nil
    THEN IF expr \in DOMAIN c.m.entries
         THEN [idx |-> c.m.entries[expr], ok |-> TRUE]
         ELSE [idx |-> 0, ok |-> FALSE]
    ELSE IF \E i \in 1..Len(c.exprs) : c.exprs[i] = expr
         THEN [idx |-> c.indices[CHOOSE i \in 1..Len(c.exprs) :
                                    /\ c.exprs[i] = expr
                                    /\ \A j \in 1..(i - 1) : c.exprs[j] # expr],
               ok |-> TRUE]
         ELSE [idx |-> -1, ok |-> FALSE]

\* A move that gives every expression the index of the first entry.
ListsAsMapOfFirstIndex(c) ==
    [e \in Range(c.exprs) |-> c.indices[1]]

\* The map the lists are moved into: a later entry of the lists overwrites
\* an earlier one with the same expression.
ListsAsMap(c) ==
    [e \in Range(c.exprs) |->
        c.indices[CHOOSE i \in 1..Len(c.exprs) :
                     /\ c.exprs[i] = e
                     /\ \A j \in (i + 1)..Len(c.exprs) : c.exprs[j] # e]]

\* An Add that moves to the map when the lists hold more than
\* limitToUseSlice entries.
FieldIndexCacheAddSwitchingLate(c, expr, idx) ==
    LET u == IF c.m.nil /\ c.limitToUseSlice < Len(c.exprs)
             THEN [c EXCEPT !.m = [nil |-> FALSE, entries |-> ListsAsMap(c)],
                            !.exprs = <<>>, !.indices = <<>>, !.listsNil = TRUE]
             ELSE c
    IN  IF u.m.nil
        THEN [u EXCEPT !.exprs = Append(@, expr), !.indices = Append(@, idx)]
        ELSE [u EXCEPT !.m.entries =
                 [e \in DOMAIN u.m.entries \cup {expr} |->
                     IF e = expr THEN idx ELSE u.m.entries[e]]]

\* FieldIndexCache.Add
FieldIndexCacheAdd(c, expr, idx) ==
    LET u == IF c.m.nil /\ c.limitToUseSlice <= Len(c.exprs)
             THEN [c EXCEPT !.m = [nil |-> FALSE, entries |-> ListsAsMap(c)],
                            !.exprs = <<>>, !.indices = <<>>, !.listsNil = TRUE]
             ELSE c
    IN  IF u.m.nil
        THEN [u EXCEPT !.exprs = Append(@, expr), !.indices = Append(@, idx)]
        ELSE [u EXCEPT !.m.entries =
                 [e \in DOMAIN u.m.entries \cup {expr} |->
                     IF e = expr THEN idx ELSE u.m.entries[e]]]

NewReferenceRecord(view, recordIdx, cache) ==
    [view |-> view, recordIndex |-> recordIdx, cache |-> cache]

\* A createScope that keeps the receiver's Records.
createScopeWithReceiverRecords(s, referenceRecords) ==
    [blocks |-> scopes[s].blocks, nodes |-> scopes[s].nodes,
     Records |-> scopes[s].Records, origin |-> "record", env |-> scopes[s].env]

\* createScope: the blocks and nodes are the receiver's.
createScope(s, referenceRecords) ==
    [blocks |-> scopes[s].blocks, nodes |-> scopes[s].nodes,
     Records |-> referenceRecords, origin |-> "record", env |-> scopes[s].env]

WorkerFrame == UNCHANGED <<scopeVars, encVars, restVars>>

\* Worker w calls CreateScopeForRecordEvaluation(view, recordIndex) on scope
\* s: records[0] is a new record with a new cache, records[i+1] is
\* rs.Records[i], the record struct copied with its cache pointer.
CreateScopeForRecordEvaluation(s, w, view, recordIndex) ==
    /\ Exists(s)
    /\ workerPc[w] = "start"
    /\ cacheAlloc + 1 \in CacheIds
    /\ cacheAlloc' = cacheAlloc + 1
    /\ cacheHeap' = [cacheHeap EXCEPT ![cacheAlloc + 1] =
                        NewFieldIndexCache(LimitToUseFieldIndexSliceChache)]
    /\ workerScope' = [workerScope EXCEPT ![w] =
          createScope(s, <<NewReferenceRecord(view, recordIndex, cacheAlloc + 1)>>
                            \o scopes[s].Records)]
    /\ workerPc' = [workerPc EXCEPT ![w] = "eval"]
    /\ UNCHANGED <<pendingAdd, cacheWriters>>
    /\ WorkerFrame

\* Field reference resolution: the record frames are tried from index 0
\* outward; in a frame a cache hit wins; on a miss the reference is looked
\* up in the frame's view.  The frame and index found (frame 0: none).
RECURSIVE FindField(_, _, _)
FindField(records, expr, i) ==
    IF i > Len(records) THEN [frame |-> 0, idx |-> -1, cached |-> FALSE]
    ELSE LET g == FieldIndexCacheGet(cacheHeap[records[i].cache], expr)
         IN  IF g.ok THEN [frame |-> i, idx |-> g.idx, cached |-> TRUE]
             ELSE IF expr.view = records[i].view
                  THEN [frame |-> i, idx |-> expr.column - 1, cached |-> FALSE]
                  ELSE FindField(records, expr, i + 1)

NoAdd == [cache |-> 0, expr |-> [view |-> 0, column |-> 0], idx |-> -1]

\* Worker w resolves a field reference: after a miss in the frame where the
\* field is found, the index is to be stored in that frame's cache.
EvalFieldReference(w, expr) ==
    /\ workerPc[w] = "eval"
    /\ LET f == FindField(workerScope[w].Records, expr, 1)
       IN  /\ f.frame # 0 /\ ~f.cached
           /\ pendingAdd' = [pendingAdd EXCEPT ![w] =
                 [cache |-> workerScope[w].Records[f.frame].cache,
                  expr |-> expr, idx |-> f.idx]]
    /\ workerPc' = [workerPc EXCEPT ![w] = "add"]
    /\ UNCHANGED <<cacheHeap, cacheAlloc, workerScope, cacheWriters>>
    /\ WorkerFrame

\* ... and stores it: scope.Records[i].cache.Add(expr, idx).
StoreFieldIndex(w) ==
    /\ workerPc[w] = "add"
    /\ cacheHeap' = [cacheHeap EXCEPT ![pendingAdd[w].cache] =
                        FieldIndexCacheAdd(@, pendingAdd[w].expr, pendingAdd[w].idx)]
    /\ cacheWriters' = [cacheWriters EXCEPT ![pendingAdd[w].cache] = @ \cup {w}]
    /\ pendingAdd' = [pendingAdd EXCEPT ![w] = NoAdd]
    /\ workerPc' = [workerPc EXCEPT ![w] = "eval"]
    /\ UNCHANGED <<cacheAlloc, workerScope>>
    /\ WorkerFrame

WorkerNext ==
    \/ \E w \in Workers, i \in 0..(MaxWorkers - 1) :
          CreateScopeForRecordEvaluation(1, w, 0, i)
    \/ \E w \in Workers, expr \in FieldReferences : EvalFieldReference(w, expr)
    \/ \E w \in Workers : StoreFieldIndex(w)

\* No worker runs.
WorkerIdle ==
    /\ cacheHeap = [c \in CacheIds |->
                       NewFieldIndexCache(LimitToUseFieldIndexSliceChache)]
    /\ cacheAlloc = 0
    /\ workerScope = [w \in Workers |-> NoScope]
    /\ workerPc = [w \in Workers |-> "start"]
    /\ pendingAdd = [w \in Workers |-> NoAdd]
    /\ cacheWriters = [c \in CacheIds |-> {}]

\* The workers start from scope 1, which holds the record frames of the
\* queries the workers' query is nested in, each with its cache.
WorkerInit ==
    /\ cacheHeap = [c \in CacheIds |->
                       NewFieldIndexCache(LimitToUseFieldIndexSliceChache)]
    /\ workerScope = [w \in Workers |-> NoScope]
    /\ workerPc = [w \in Workers |-> "start"]
    /\ pendingAdd = [w \in Workers |-> NoAdd]
    /\ cacheWriters = [c \in CacheIds |-> {}]
    /\ blockHeap = [b \in BlockIds |-> NewBlockScope]
    /\ blockAlloc = 1
    /\ blockPool = [b \in BlockIds |-> 0]
    /\ nodeHeap = [n \in NodeIds |-> NewNodeScope]
    /\ nodeAlloc = 0
    /\ nodePool = [n \in NodeIds |-> 0]
    /\ kind = "variables"
    /\ ret = Ret("", 0, "", "", NoError)
    /\ \E k \in 0..MaxOuterFrames :
          /\ cacheAlloc = k
          /\ scopes = [s \in ScopeIds |->
                IF s = 1
                THEN [blocks |-> <<1>>, nodes |-> <<>>,
                      Records |-> [j \in 1..k |-> NewReferenceRecord(j, 0, j)],
                      origin |-> IF k = 0 THEN "root" ELSE "record",
                      env |-> NewEnv]
                ELSE NoScope]

(***************************************************************************)
(* The scopes a statement makes one from another.  The scope returned by   *)
(* a record-scope constructor is kept as scope t, which may be the         *)
(* variable that held the receiver.                                        *)
(***************************************************************************)
IndexOutOfRange == "index out of range"

\* CreateScopeForSequentialEvaluation(view) is
\* CreateScopeForRecordEvaluation(view, -1).
CreateScopeForSequentialEvaluation(s, t, view) ==
    /\ Exists(s)
    /\ cacheAlloc + 1 \in CacheIds
    /\ cacheAlloc' = cacheAlloc + 1
    /\ cacheHeap' = [cacheHeap EXCEPT ![cacheAlloc + 1] =
                        NewFieldIndexCache(LimitToUseFieldIndexSliceChache)]
    /\ scopes' = [scopes EXCEPT ![t] =
          createScope(s, <<NewReferenceRecord(view, -1, cacheAlloc + 1)>>
                            \o scopes[s].Records)]
    /\ ret' = Ret("CreateScopeForSequentialEvaluation", t, "", "", NoError)
    /\ UNCHANGED <<blockHeap, blockAlloc, blockPool, nodeHeap, nodeAlloc,
                   nodePool, kind, workerScope, workerPc, pendingAdd,
                   cacheWriters, encVars, restVars>>

\* CreateScopeForAnalytics: records[0] is a new record over the view of
\* rs.Records[0], the other records are copied; with no record in
\* rs.Records the index expression panics and no scope is returned.
CreateScopeForAnalytics(s, t) ==
    /\ Exists(s)
    /\ IF Len(scopes[s].Records) = 0
       THEN /\ ret' = Ret("CreateScopeForAnalytics", s, "", "", IndexOutOfRange)
            /\ UNCHANGED <<scopes, cacheAlloc, cacheHeap>>
       ELSE /\ cacheAlloc + 1 \in CacheIds
            /\ cacheAlloc' = cacheAlloc + 1
            /\ cacheHeap' = [cacheHeap EXCEPT ![cacheAlloc + 1] =
                  NewFieldIndexCache(LimitToUseFieldIndexSliceChache)]
            /\ scopes' = [scopes EXCEPT ![t] =
                  createScope(s, <<NewReferenceRecord(scopes[s].Records[1].view,
                                                      -1, cacheAlloc + 1)>>
                                    \o Tail(scopes[s].Records))]
            /\ ret' = Ret("CreateScopeForAnalytics", t, "", "", NoError)
    /\ UNCHANGED <<blockHeap, blockAlloc, blockPool, nodeHeap, nodeAlloc,
                   nodePool, kind, workerScope, workerPc, pendingAdd,
                   cacheWriters, encVars, restVars>>

\* A query's scope and the scope of a block run under it: the query's
\* scope declares inline tables and aliases and takes record frames, the
\* child is made from it and takes record frames of its own.
ChildNext ==
    \/ \E s \in ScopeIds, n \in Names :
          \/ \E v \in Views : SetInlineTable(s, n, v)
          \/ \E v \in Paths : AddAlias(s, n, v)
    \/ CreateChild(1, 2)
    \/ \E s \in ScopeIds, view \in ViewIds :
          /\ view = Len(scopes[s].Records)
          /\ CreateScopeForSequentialEvaluation(s, s, view)

(***************************************************************************)
(* One record frame's cache filled by the evaluation of a record: a field  *)
(* reference is added after Get has missed it.  The references are named   *)
(* by the order in which they are first resolved.                          *)
(***************************************************************************)
CacheLen(c) == IF c.m.nil THEN Len(c.exprs) ELSE Cardinality(DOMAIN c.m.entries)

CacheAdd(c, expr, idx) ==
    /\ ~FieldIndexCacheGet(cacheHeap[c], expr).ok
    /\ cacheHeap' = [cacheHeap EXCEPT ![c] = FieldIndexCacheAdd(@, expr, idx)]
    /\ UNCHANGED <<cacheAlloc, workerScope, workerPc, pendingAdd, cacheWriters>>
    /\ WorkerFrame

\* Get returns what Add stored.
CacheGet(c, expr) ==
    /\ FieldIndexCacheGet(cacheHeap[c], expr).ok
    /\ pendingAdd' = [pendingAdd EXCEPT ![1] =
          [cache |-> c, expr |-> expr,
           idx |-> FieldIndexCacheGet(cacheHeap[c], expr).idx]]
    /\ UNCHANGED <<cacheHeap, cacheAlloc, workerScope, workerPc, cacheWriters>>
    /\ WorkerFrame

CacheNext ==
    \/ \E k \in 1..MaxCacheEntries, idx \in 0..1 :
          /\ k = CacheLen(cacheHeap[1]) + 1
          /\ CacheAdd(1, [view |-> 0, column |-> k], idx)
    \/ \E k \in 1..MaxCacheEntries : CacheGet(1, [view |-> 0, column |-> k])

\* The expressions added more than once.
RepeatedExprs == {[view |-> 0, column |-> 1], [view |-> 0, column |-> 2]}

\* FieldIndexCache.Add called without a Get before it.
CacheAddUnchecked(c, expr, idx) ==
    /\ cacheHeap' = [cacheHeap EXCEPT ![c] = FieldIndexCacheAdd(@, expr, idx)]
    /\ UNCHANGED <<cacheAlloc, workerScope, workerPc, pendingAdd, cacheWriters>>
    /\ WorkerFrame

CacheAddsNext ==
    \E expr \in RepeatedExprs, idx \in 0..1 : CacheAddUnchecked(1, expr, idx)

\* A statement derives its scopes one from another: each new scope is made
\* from the one made last.  The views of nested queries are numbered by
\* their depth.
Latest(s) == Exists(s) /\ \A u \in ScopeIds : u > s => ~Exists(u)

FramesNext ==
    \/ LexicalNewRoot
    \/ \E s, t \in ScopeIds :
          /\ Latest(s) /\ t = s + 1
          /\ (CreateChild(s, t) \/ CreateNode(s, t))
    \/ \E s, t \in ScopeIds, view \in ViewIds :
          /\ Latest(s) /\ t \in {s, s + 1}
          /\ view = Len(scopes[s].Records)
          /\ CreateScopeForSequentialEvaluation(s, t, view)
    \/ \E s, t \in ScopeIds :
          /\ Latest(s) /\ t \in {s, s + 1}
          /\ CreateScopeForAnalytics(s, t)
    \/ \E s \in ScopeIds, view \in ViewIds, i \in 0..(MaxWorkers - 1) :
          CreateScopeForRecordEvaluation(s, 1, view, i)

(***************************************************************************)
(* What the encoders do with one value, one record or one set of options:  *)
(* the functions of lib/query/encode.go applied to arguments drawn at the  *)
(* start.                                                                  *)
(***************************************************************************)
Ternaries == {"TRUE", "FALSE", "UNKNOWN"}

\* value.Primary: the type of the value and, for a Ternary, what it holds.
Primaries ==
    [type : {"String", "Integer", "Float", "Boolean", "Datetime", "Null"},
     ternary : {"UNKNOWN"}]
    \cup [type : {"Ternary"}, ternary : Ternaries]

\* ConvertFieldContents: the string is named by how it is made.
ConvertFieldContents(val, forTextTable) ==
    CASE val.type = "String" ->
            [s |-> "Raw", effect |-> "StringEffect", align |-> "NotAligned"]
      [] val.type \in {"Integer", "Float"} ->
            [s |-> "String", effect |-> "NumberEffect", align |-> "RightAligned"]
      [] val.type = "Boolean" ->
            [s |-> "String", effect |-> "BooleanEffect", align |-> "Centering"]
      [] val.type = "Ternary" ->
            IF forTextTable
            THEN [s |-> "Ternary.String", effect |-> "TernaryEffect",
                  align |-> "Centering"]
            ELSE IF val.ternary # "UNKNOWN"
                 THEN [s |-> "FormatBool", effect |-> "BooleanEffect",
                       align |-> "Centering"]
                 ELSE [s |-> "", effect |-> "NoEffect", align |-> "NotAligned"]
      [] val.type = "Datetime" ->
            [s |-> "RFC3339Nano", effect |-> "DatetimeEffect",
             align |-> "NotAligned"]
      [] val.type = "Null" ->
            IF forTextTable
            THEN [s |-> "NULL", effect |-> "NullEffect", align |-> "Centering"]
            ELSE [s |-> "", effect |-> "NoEffect", align |-> "NotAligned"]

ConvertFrame ==
    UNCHANGED <<cvIn, scopeVars, encVars, workerVars, tableVars, cursorVars,
                flagVars, iterVars, lineVars>>

Rows == UNION {[1..n -> Primaries] : n \in 1..MaxColumns}

\* A quote flag that is options.EncloseAll.
QuoteOfEncloseAll(encloseAll, effect) == encloseAll

\* encodeCSV: the quote flag of a record field.
QuoteOfField(encloseAll, effect) ==
    encloseAll /\ effect \in {"StringEffect", "DatetimeEffect"}

\* encodeCSV: the fields of one record as they are handed to w.Write.
EncodeCSVFields ==
    /\ cvIn.fn = "encodeCSV" /\ cvOut.fn = "none"
    /\ cvOut' = [fn |-> "encodeCSV",
                 fields |-> [j \in DOMAIN cvIn.record |->
                    LET c == ConvertFieldContents(cvIn.record[j], FALSE)
                    IN  [Contents |-> c.s,
                         Quote |-> QuoteOfField(cvIn.EncloseAll, c.effect)]]]
    /\ ConvertFrame

\* fixedlen.NewMeasure(): no measuring option is set.
NewMeasure ==
    [made |-> TRUE, Encoding |-> "UTF8", EastAsianEncoding |-> FALSE,
     CountDiacriticalSign |-> FALSE, CountFormatCode |-> FALSE]

NoMeasure == [NewMeasure EXCEPT !.made = FALSE]

\* encodeFixedLengthFormat: the measure that generates the positions when
\* options.DelimiterPositions is nil, and the positions the writer is given.
EncodeFixedMeasureSetup ==
    /\ cvIn.fn = "encodeFixedLengthFormat" /\ cvOut.fn = "none"
    /\ cvOut' =
          IF cvIn.DelimiterPositions = "nil"
          THEN [fn |-> "encodeFixedLengthFormat",
                m |-> [NewMeasure EXCEPT !.Encoding = cvIn.Encoding],
                positions |-> "m.GeneratePositions()"]
          ELSE [fn |-> "encodeFixedLengthFormat",
                m |-> NoMeasure,
                positions |-> cvIn.DelimiterPositions]
    /\ ConvertFrame

\* The values of one column of a record set.
Columns == UNION {[1..n -> Primaries] : n \in 0..MaxTextRecords}

\* Column alignments taken from the last record.
AlignsOfLastRecord(fields) ==
    IF fields = <<>> THEN "NotAligned" ELSE fields[Len(fields)]

\* encodeText: aligns[j] is the align of record 0 (text.NotAligned, the
\* zero value, when there is no record); fields are the aligns of column j.
AlignsOfFirstRecord(fields) ==
    IF fields = <<>> THEN "NotAligned" ELSE fields[1]

\* encodeText: the alignments of the fields of one column and the
\* alignment set on the table encoder for that column.
EncodeTextAlignments ==
    /\ cvIn.fn = "encodeText" /\ cvOut.fn = "none"
    /\ LET isPlainTable == cvIn.Format = "TEXT"
           fields == [i \in DOMAIN cvIn.column |->
                         ConvertFieldContents(cvIn.column[i], isPlainTable).align]
       IN  cvOut' =
             IF isPlainTable /\ cvIn.column = <<>>
             THEN [fn |-> "encodeText", err |-> EmptyResultSetError,
                   fields |-> <<>>, SetFieldAlignments |-> FALSE,
                   aligns |-> "NotAligned"]
             ELSE IF cvIn.WithoutHeader /\ cvIn.column = <<>>
             THEN [fn |-> "encodeText", err |-> DataEmpty,
                   fields |-> <<>>, SetFieldAlignments |-> FALSE,
                   aligns |-> "NotAligned"]
             ELSE [fn |-> "encodeText", err |-> NoError,
                   fields |-> fields,
                   SetFieldAlignments |-> cvIn.Format = "GFM",
                   aligns |-> AlignsOfFirstRecord(fields)]
    /\ ConvertFrame

\* The runes of a field's string: a letter, '\r' or '\n'.
Runes == {"a", "CR", "LF"}

RuneStrings == UNION {[1..n -> Runes] : n \in 0..MaxRunes}

\* What encodeText writes to textStrBuf: a string rendered by the palette
\* or a '\n' written as it is.
Rendered(line) == [by |-> "palette.Render", text |-> line]

LineFeed == [by |-> "WriteByte", text |-> <<"LF">>]

\* The string of a GFM or ORG field, given to the table as it is.
Unrendered(str) == [by |-> "none", text |-> str]

\* A '\r' that never takes the '\n' behind it along.
NoLineFeedFollows(runes, pos) == FALSE

\* (pos+1) < len(runes) && runes[pos+1] == '\n', pos counted from 0
LineFeedFollows(runes, pos) == pos + 1 < Len(runes) /\ runes[pos + 2] = "LF"

\* encodeText: the loop over the runes of a field's string; line is
\* textLineBuf, out is textStrBuf.
RECURSIVE RenderLines(_, _, _, _)
RenderLines(runes, pos, line, out) ==
    IF Len(runes) <= pos
    THEN IF 0 < Len(line) THEN Append(out, Rendered(line)) ELSE out
    ELSE LET r == runes[pos + 1]
             at == IF r = "CR" /\ LineFeedFollows(runes, pos) THEN pos + 1 ELSE pos
         IN  IF r \in {"CR", "LF"}
             THEN RenderLines(runes, at + 1, <<>>,
                     Append(IF 0 < Len(line) THEN Append(out, Rendered(line))
                            ELSE out,
                            LineFeed))
             ELSE RenderLines(runes, pos + 1, Append(line, r), out)

EncodeTextRender ==
    /\ cvIn.fn = "encodeText.Render" /\ cvOut.fn = "none"
    /\ cvOut' = [fn |-> "encodeText.Render",
                 str |-> IF cvIn.Format = "TEXT"
                         THEN RenderLines(cvIn.str, 0, <<>>, <<>>)
                         ELSE <<Unrendered(cvIn.str)>>]
    /\ ConvertFrame

\* A palette handed to the encoder whenever Color is set.
PaletteGivenOnColor(prettyPrint, color) == color

\* encodeJson: options.PrettyPrint && options.Color
PaletteGiven(prettyPrint, color) == prettyPrint /\ color

\* encodeJson. The returns before the encoder is made leave the palette
\* as it was; past them the deferred function enables or disables it,
\* whatever e.Encode did to it and whether or not the write succeeds.
\* Encode belongs to the JSON encoder's library: it may leave a palette it
\* was given enabled or disabled.
EncodeJson ==
    /\ cvIn.fn = "encodeJson" /\ cvOut.fn = "none"
    /\ \E enabledByEncode \in BOOLEAN :
          cvOut' =
            IF cvIn.outcome \in {"ContextError", "DataEncodingError"}
            THEN [fn |-> "encodeJson", err |-> cvIn.outcome,
                  encoded |-> FALSE, Palette |-> "nil",
                  enabledByEncode |-> cvIn.paletteEnabled,
                  paletteEnabled |-> cvIn.paletteEnabled]
            ELSE LET given == PaletteGiven(cvIn.PrettyPrint, cvIn.Color)
                 IN  [fn |-> "encodeJson", err |-> cvIn.outcome,
                      encoded |-> TRUE,
                      Palette |-> IF given THEN "palette" ELSE "nil",
                      enabledByEncode |-> IF given THEN enabledByEncode
                                          ELSE cvIn.paletteEnabled,
                      paletteEnabled |-> cvIn.Color]
    /\ ConvertFrame

\* Views for encodeLTSV: a header of column names and records of as many
\* values each.
LTSVColumns == {"id", "name"}

LTSVValues == {v \in Primaries : v.type \in {"String", "Null"}}

LTSVViews ==
    UNION {[Header : [1..n -> LTSVColumns],
            RecordSet : UNION {[1..k -> [1..n -> LTSVValues]] :
                                  k \in 0..MaxTextRecords}] :
           n \in 1..MaxColumns}

\* ltsv.Writer.Write: every field goes out with the label at its position.
LTSVWrite(hfields, fields) ==
    [j \in DOMAIN fields |-> [label |-> hfields[j], value |-> fields[j]]]

\* An encodeLTSV that writes no labels under options.WithoutHeader.
encodeLTSVHonouringWithoutHeader(view, options) ==
    IF Len(view.RecordSet) < 1
    THEN [err |-> DataEmpty, lines |-> <<>>]
    ELSE [err |-> NoError,
          lines |-> [i \in DOMAIN view.RecordSet |->
              LTSVWrite([j \in DOMAIN view.Header |->
                            IF options.WithoutHeader THEN ""
                            ELSE view.Header[j]],
                        [j \in DOMAIN view.RecordSet[i] |->
                            ConvertFieldContents(view.RecordSet[i][j], FALSE).s])]]

\* encodeLTSV with a context that is not cancelled and a writer that does
\* not fail: the error returned and the lines written.
encodeLTSV(view, options) ==
    IF Len(view.RecordSet) < 1
    THEN [err |-> DataEmpty, lines |-> <<>>]
    ELSE LET hfields == [i \in DOMAIN view.Header |-> view.Header[i]]
         IN  [err |-> NoError,
              lines |-> [i \in DOMAIN view.RecordSet |->
                  LTSVWrite(hfields,
                            [j \in DOMAIN view.RecordSet[i] |->
                                ConvertFieldContents(view.RecordSet[i][j],
                                                     FALSE).s])]]

EncodeLTSVLines ==
    /\ cvIn.fn = "encodeLTSV" /\ cvOut.fn = "none"
    /\ cvOut' = [fn |-> "encodeLTSV",
                 ret |-> encodeLTSV(cvIn.view, cvIn.options)]
    /\ ConvertFrame

ConvertNext ==
    \/ EncodeCSVFields
    \/ EncodeFixedMeasureSetup
    \/ EncodeTextAlignments
    \/ EncodeTextRender
    \/ EncodeJson
    \/ EncodeLTSVLines

ConvertIdle == cvIn = [fn |-> "none"] /\ cvOut = [fn |-> "none"]

ConvertInit ==
    /\ cvIn \in
          [fn : {"encodeCSV"}, record : Rows, EncloseAll : BOOLEAN]
          \cup [fn : {"encodeFixedLengthFormat"},
                DelimiterPositions : {"nil", "given"},
                Encoding : {"UTF8", "SJIS"},
                EastAsianEncoding : BOOLEAN,
                CountDiacriticalSign : BOOLEAN,
                CountFormatCode : BOOLEAN]
          \cup [fn : {"encodeText"}, Format : {"GFM", "ORG", "TEXT"},
                WithoutHeader : BOOLEAN, column : Columns]
          \cup [fn : {"encodeText.Render"},
                Format : {"GFM", "ORG", "TEXT"}, str : RuneStrings]
          \cup [fn : {"encodeJson"}, PrettyPrint : BOOLEAN, Color : BOOLEAN,
                paletteEnabled : BOOLEAN,
                outcome : {"ContextError", "DataEncodingError",
                           "SystemError", "nil"}]
          \cup [fn : {"encodeLTSV"}, view : LTSVViews,
                options : [WithoutHeader : BOOLEAN]]
    /\ cvOut = [fn |-> "none"]

(***************************************************************************)
(* Cursors.  The scope finds the cursor: the walk stops at the first block *)
(* whose map does not answer errUndeclaredCursor.  The Cursor found then   *)
(* follows the state machine Closed -> Open(index -1) -> Open(index k) ->  *)
(* Open(index N, exhausted).                                               *)
(***************************************************************************)
UndeclaredCursorError == "cursor is undeclared"
CursorClosedError == "cursor is closed"
CursorOpenError == "cursor is already open"

ClosedCursor == [open |-> FALSE, index |-> -1, len |-> 0]

NoFetch == [row |-> -1, notFound |-> FALSE]

\* A FETCH NEXT that starts over after the last row.
CursorFetchNextWrapping(cur) ==
    LET idx == IF cur.index + 1 < cur.len THEN cur.index + 1 ELSE 0
    IN  IF idx < cur.len
        THEN [cur |-> [cur EXCEPT !.index = idx],
              got |-> [row |-> idx, notFound |-> FALSE]]
        ELSE [cur |-> [cur EXCEPT !.index = cur.len],
              got |-> [row |-> -1, notFound |-> TRUE]]

\* Cursor.Fetch(NEXT) on an open cursor: the cursor afterwards and the row
\* it returned.
CursorFetchNext(cur) ==
    LET idx == cur.index + 1
    IN  IF idx < cur.len
        THEN [cur |-> [cur EXCEPT !.index = idx],
              got |-> [row |-> idx, notFound |-> FALSE]]
        ELSE [cur |-> [cur EXCEPT !.index = cur.len],
              got |-> [row |-> -1, notFound |-> TRUE]]

CursorFrame ==
    UNCHANGED <<blockHeap, blockAlloc, blockPool, nodeHeap, nodeAlloc, nodePool,
                scopes, kind, encVars, workerVars, tableVars, convertVars,
                flagVars, iterVars, lineVars>>

\* The query of the cursor is run and gives rows rows.
OpenCursor(s, n, rows) ==
    /\ Exists(s) /\ kind = "cursors"
    /\ LET i == FirstHit(scopes[s].blocks, "cursors", n, 1)
           b == scopes[s].blocks[i]
       IN  IF i = 0
           THEN /\ ret' = Ret("OpenCursor", s, n, "", UndeclaredCursorError)
                /\ UNCHANGED cursorHeap
           ELSE IF cursorHeap[b][n].open
           THEN /\ ret' = RetWalk("OpenCursor", s, n, "", CursorOpenError, i)
                /\ UNCHANGED cursorHeap
           ELSE /\ ret' = RetWalk("OpenCursor", s, n, "", NoError, i)
                /\ cursorHeap' = [cursorHeap EXCEPT ![b][n] =
                      [open |-> TRUE, index |-> -1, len |-> rows]]
    /\ fetched' = NoFetch
    /\ CursorFrame

CloseCursor(s, n) ==
    /\ Exists(s) /\ kind = "cursors"
    /\ LET i == FirstHit(scopes[s].blocks, "cursors", n, 1)
       IN  IF i = 0
           THEN /\ ret' = Ret("CloseCursor", s, n, "", UndeclaredCursorError)
                /\ UNCHANGED cursorHeap
           ELSE /\ ret' = RetWalk("CloseCursor", s, n, "", NoError, i)
                /\ cursorHeap' = [cursorHeap EXCEPT ![scopes[s].blocks[i]][n] =
                                     ClosedCursor]
    /\ fetched' = NoFetch
    /\ CursorFrame

\* FetchCursor(name, NEXT, 0)
FetchCursor(s, n) ==
    /\ Exists(s) /\ kind = "cursors"
    /\ LET i == FirstHit(scopes[s].blocks, "cursors", n, 1)
           b == scopes[s].blocks[i]
       IN  IF i = 0
           THEN /\ ret' = Ret("FetchCursor", s, n, "", UndeclaredCursorError)
                /\ UNCHANGED cursorHeap
                /\ fetched' = NoFetch
           ELSE IF ~cursorHeap[b][n].open
           THEN /\ ret' = RetWalk("FetchCursor", s, n, "", CursorClosedError, i)
                /\ UNCHANGED cursorHeap
                /\ fetched' = NoFetch
           ELSE LET o == CursorFetchNext(cursorHeap[b][n])
                IN  /\ ret' = RetWalk("FetchCursor", s, n, "", NoError, i)
                    /\ cursorHeap' = [cursorHeap EXCEPT ![b][n] = o.cur]
                    /\ fetched' = o.got
    /\ CursorFrame

\* Cursor.IsInRange on an open cursor: UNKNOWN before the first fetch.
CursorInRange(cur) ==
    IF cur.index < 0 THEN "UNKNOWN"
    ELSE IF cur.index < cur.len THEN "TRUE" ELSE "FALSE"

CursorIsInRange(s, n) ==
    /\ Exists(s) /\ kind = "cursors"
    /\ LET i == FirstHit(scopes[s].blocks, "cursors", n, 1)
           b == scopes[s].blocks[i]
       IN  ret' = IF i = 0
                  THEN Ret("CursorIsInRange", s, n, "FALSE",
                           UndeclaredCursorError)
                  ELSE IF ~cursorHeap[b][n].open
                  THEN RetWalk("CursorIsInRange", s, n, "FALSE",
                               CursorClosedError, i)
                  ELSE RetWalk("CursorIsInRange", s, n,
                               CursorInRange(cursorHeap[b][n]), NoError, i)
    /\ fetched' = NoFetch
    /\ UNCHANGED cursorHeap
    /\ CursorFrame

\* Cursor.Count on an open cursor is the number of its rows.
CursorCount(s, n) ==
    /\ Exists(s) /\ kind = "cursors"
    /\ LET i == FirstHit(scopes[s].blocks, "cursors", n, 1)
           b == scopes[s].blocks[i]
       IN  ret' = IF i = 0
                  THEN Ret("CursorCount", s, n, 0, UndeclaredCursorError)
                  ELSE IF ~cursorHeap[b][n].open
                  THEN RetWalk("CursorCount", s, n, 0, CursorClosedError, i)
                  ELSE RetWalk("CursorCount", s, n, cursorHeap[b][n].len,
                               NoError, i)
    /\ fetched' = NoFetch
    /\ UNCHANGED cursorHeap
    /\ CursorFrame

\* A cursor is declared once in a block.
CursorsNext ==
    \/ LexicalNewRoot
    \/ \E s, t \in ScopeIds : Latest(s) /\ t = s + 1 /\ CreateChild(s, t)
    \/ \E s \in ScopeIds, n \in Names :
          /\ Exists(s)
          /\ blockHeap[CurrentBlock(s)].cursors[n] = Absent
          /\ DeclareCursor(s, n)
    \/ \E s \in ScopeIds, n \in Names, rows \in 0..MaxCursorRows :
          OpenCursor(s, n, rows)
    \/ \E s \in ScopeIds, n \in Names : FetchCursor(s, n)
    \/ \E s \in ScopeIds, n \in Names : CloseCursor(s, n)
    \/ \E s \in ScopeIds, n \in Names : CursorIsInRange(s, n)
    \/ \E s \in ScopeIds, n \in Names : CursorCount(s, n)

CursorsIdle ==
    /\ cursorHeap = [b \in BlockIds |-> [n \in Names |-> ClosedCursor]]
    /\ fetched = NoFetch

(***************************************************************************)
(* Commit and rollback of the temporary tables.  A temporary table is the  *)
(* View the temporaryTables map holds under the table's path; the model    *)
(* names the table by its FileInfo, which its views share, and keeps in    *)
(* viewHeap the contents of the table's current view (Header, RecordSet)   *)
(* and the fields of the FileInfo (is_stdin, restore_point).               *)
(***************************************************************************)
TableContents == {"rows0", "rows1"}
NoRestorePoint == "no restore point"
NoStdinView == "no stdin view"

NewView(isStdin) ==
    [isStdin |-> isStdin, contents |-> "rows0", restorePoint |-> NoRestorePoint]

\* View.CreateRestorePoint: the restore point is a deep copy of the contents.
CreateRestorePoint(view) == [view EXCEPT !.restorePoint = view.contents]

\* View.Restore: the contents are a deep copy of the restore point.
Restore(view) == [view EXCEPT !.contents = view.restorePoint]

\* A walk that stops at the current block.
CurrentBlockOnly(s) == {1}

\* for i := range rs.blocks
BlocksRange(s) == 1..Len(scopes[s].blocks)

\* The entries temporaryTables.Range visits whose key is in uncomittedViews.
UncomittedEntries(s, uncomitted) ==
    {e \in [i : BlocksRange(s), key : uncomitted] :
        blockHeap[scopes[s].blocks[e.i]].temporaryTables[e.key] # Absent}

TableAt(s, e) == blockHeap[scopes[s].blocks[e.i]].temporaryTables[e.key]

\* msglist = append(msglist, fmt.Sprintf(text, view.FileInfo.Path)) for each
\* entry visited: the messages as a bag, the number of messages that name
\* each view.
Messages(s, text, entries) ==
    [text |-> text,
     views |-> [v \in {TableAt(s, e) : e \in entries} |->
                  Cardinality({e \in entries : TableAt(s, e) = v})]]

\* What a commit or rollback returns: the message list.
RetMessages(op, s, list) ==
    [op |-> op, scope |-> s, name |-> "", val |-> "", err |-> NoError,
     hit |-> 0, blocks |-> <<>>, msglist |-> list]

TableFrame ==
    UNCHANGED <<blockAlloc, blockPool, nodeHeap, nodeAlloc, nodePool, scopes,
                kind, encVars, workerVars, convertVars, cursorVars, flagVars,
                iterVars, lineVars>>

\* The view of a DML statement's result replaces the table the statement
\* resolved, the innermost of its path; it carries the table's FileInfo.
ReplaceTemporaryTable(s, n, contents) ==
    /\ Exists(s) /\ kind = "temporaryTables"
    /\ LET i == FirstHit(scopes[s].blocks, "temporaryTables", n, 1)
       IN  /\ i # 0
           /\ viewHeap' = [viewHeap EXCEPT ![TableAt(s, [i |-> i, key |-> n])]
                                                .contents = contents]
           /\ ret' = RetWalk("ReplaceTemporaryTable", s, n, contents, NoError, i)
    /\ UNCHANGED <<blockHeap, uncomittedViews, stdinView>>
    /\ TableFrame

DisposeTemporaryTable(s, n) ==
    /\ Exists(s) /\ kind = "temporaryTables"
    /\ LET i == FirstHit(scopes[s].blocks, "temporaryTables", n, 1)
       IN  IF i = 0
           THEN /\ ret' = Ret("DisposeTemporaryTable", s, n, Absent,
                              UndeclaredTemporaryTableError)
                /\ UNCHANGED blockHeap
           ELSE /\ ret' = RetWalk("DisposeTemporaryTable", s, n, Absent, NoError, i)
                /\ blockHeap' = [blockHeap EXCEPT
                      ![scopes[s].blocks[i]].temporaryTables[n] = Absent]
    /\ UNCHANGED tableVars
    /\ TableFrame

\* Commit.  The order in which Range visits the entries is not specified:
\* when several stdin views are visited, the session keeps one of them.
StoreTemporaryTable(s, uncomitted) ==
    /\ Exists(s) /\ kind = "temporaryTables"
    /\ LET visited == {TableAt(s, e) : e \in UncomittedEntries(s, uncomitted)}
           stdin == {v \in visited : viewHeap[v].isStdin}
       IN  /\ viewHeap' = [v \in Views |->
                 IF v \in visited \ stdin
                 THEN CreateRestorePoint(viewHeap[v]) ELSE viewHeap[v]]
           /\ IF stdin = {} THEN UNCHANGED stdinView
              ELSE \E v \in stdin : stdinView' = viewHeap[v].contents
    /\ uncomittedViews' = uncomitted
    /\ ret' = RetMessages("StoreTemporaryTable", s,
                          Messages(s, "Commit: restore point of view %q is created.",
                                   UncomittedEntries(s, uncomitted)))
    /\ UNCHANGED blockHeap
    /\ TableFrame

\* Rollback: a stdin view is deleted from its map, any other is restored.
RestoreTemporaryTable(s, uncomitted) ==
    /\ Exists(s) /\ kind = "temporaryTables"
    /\ LET entries == UncomittedEntries(s, uncomitted)
           visited == {TableAt(s, e) : e \in entries}
           stdin == {v \in visited : viewHeap[v].isStdin}
       IN  /\ viewHeap' = [v \in Views |->
                 IF v \in visited \ stdin
                 THEN Restore(viewHeap[v]) ELSE viewHeap[v]]
           /\ blockHeap' = [b \in BlockIds |->
                 [blockHeap[b] EXCEPT !.temporaryTables = [n \in Names |->
                     IF /\ \E e \in entries :
                              scopes[s].blocks[e.i] = b /\ e.key = n
                        /\ blockHeap[b].temporaryTables[n] \in stdin
                     THEN Absent ELSE blockHeap[b].temporaryTables[n]]]]
    /\ uncomittedViews' = uncomitted
    /\ ret' = RetMessages("RestoreTemporaryTable", s,
                          Messages(s, "Rollback: view %q is restored.",
                                   UncomittedEntries(s, uncomitted)))
    /\ UNCHANGED stdinView
    /\ TableFrame

\* A session: a root scope, child blocks, tables declared, changed and
\* disposed, commits and rollbacks.
TablesNext ==
    \/ LexicalNewRoot
    \/ \E s, t \in ScopeIds : IsFresh(t) /\ CreateChild(s, t)
    \/ \E s \in ScopeIds, n \in Names, v \in Views : SetTemporaryTable(s, n, v)
    \/ \E s \in ScopeIds, n \in Names, c \in TableContents :
          ReplaceTemporaryTable(s, n, c)
    \/ \E s \in ScopeIds, n \in Names : DisposeTemporaryTable(s, n)
    \/ \E s \in ScopeIds, u \in SUBSET Names : StoreTemporaryTable(s, u)
    \/ \E s \in ScopeIds, u \in SUBSET Names : RestoreTemporaryTable(s, u)

\* No temporary table is in use.
TablesIdle ==
    /\ viewHeap = [v \in Views |-> NewView(FALSE)]
    /\ uncomittedViews = {}
    /\ stdinView = NoStdinView

\* The session has at most one stdin view.
TablesInit ==
    /\ \E stdin \in {{}, {"view2"}} :
          viewHeap = [v \in Views |-> NewView(v \in stdin)]
    /\ uncomittedViews = {}
    /\ stdinView = NoStdinView

(***************************************************************************)
(* Flags (lib/cmd/flags.go): the session's settings and their setters.     *)
(***************************************************************************)
ImportFormats == {"CSV", "TSV", "FIXED", "JSON", "LTSV"}

EscapeTypes == {"Backslash", "HexDigits", "AllWithHexDigits"}

ImportFormatError == "import format must be one of CSV|TSV|FIXED|JSON|LTSV"
FormatError == "format must be one of CSV|TSV|FIXED|JSON|LTSV|GFM|ORG|TEXT"

\* The format names a setter is called with.
FormatNames == Formats \cup {"", "XML"}

\* A path is a sequence of parts: a name without a dot, a separator, or a
\* dot followed by a name.
Extensions ==
    {".csv", ".TSV", ".json", ".ltsv", ".Md", ".org", ".txt"}

\* The output files: none, a name without extension, a name with each
\* extension, a name with two, and a name without extension in a directory
\* with one.
OutFiles ==
    {<<>>, <<"a">>, <<"a", ".csv", ".txt">>, <<"a", ".txt", ".csv">>,
     <<"a", ".org", "/", "a">>}
    \cup {<<"a", ext>> : ext \in Extensions}

\* filepath.Ext: the suffix of the last element of the path that begins at
\* its last dot, "" when it has none.
Ext(path) ==
    IF path # <<>> /\ path[Len(path)] \in Extensions
    THEN path[Len(path)] ELSE ""

\* strings.ToLower on the extensions.
ToLower(ext) ==
    CASE ext = ".TSV" -> ".tsv"
      [] ext = ".Md" -> ".md"
      [] OTHER -> ext

\* float64: a number or NaN.
NaN == [nan |-> TRUE, num |-> 0]

Float(n) == [nan |-> FALSE, num |-> n]

Float64s == {NaN} \cup {Float(n) : n \in -MaxSetting..MaxSetting}

\* a < b on float64: false when either side is NaN.
FloatLess(a, b) == ~a.nan /\ ~b.nan /\ a.num < b.num

\* runtime.NumCPU() / 2, at least 1
GetDefaultNumberOfCPU(numCPU) ==
    LET n == numCPU \div 2 IN IF n < 1 THEN 1 ELSE n

\* DelimiterPositions []int: nil, or the positions.
NilPositions == [nil |-> TRUE, positions |-> <<>>]

NewImportOptions ==
    [Format |-> "CSV", Delimiter |-> ",", DelimiterPositions |-> NilPositions,
     SingleLine |-> FALSE, Encoding |-> "AUTO"]

NewExportOptions ==
    [Format |-> "TEXT", Encoding |-> "UTF8", Delimiter |-> ",",
     DelimiterPositions |-> NilPositions, SingleLine |-> FALSE,
     LineBreak |-> "LF", JsonEscape |-> "Backslash"]

NewFlags(numCPU) ==
    [Repository |-> "",
     Location |-> "Local",
     WaitTimeout |-> Float(10),
     ImportOptions |-> NewImportOptions,
     ExportOptions |-> NewExportOptions,
     LimitRecursion |-> 1000,
     CPU |-> GetDefaultNumberOfCPU(numCPU)]

\* ParseFormat: the eight format names are parsed; any other name is an
\* error.  The escape type it returns is its own choice.
ParseFormat(s, et) ==
    IF s \in Formats
    THEN [fm : {s}, escape : EscapeTypes, err : {NoError}]
    ELSE [fm : {"CSV"}, escape : EscapeTypes, err : {FormatError}]

\* A SetWaitTimeout that stores its argument as given.
StoredWaitTimeoutAsGiven(t) == t

\* SetWaitTimeout: if t < 0 { t = 0 }
StoredWaitTimeout(t) == IF FloatLess(t, Float(0)) THEN Float(0) ELSE t

SetWaitTimeout(t) ==
    /\ flags' = [flags EXCEPT !.WaitTimeout = StoredWaitTimeout(t)]
    /\ flagErr' = NoError
    /\ UNCHANGED <<NumCPU, location>>

\* A SetImportFormat that takes every format ParseFormat knows.
ImportableAll(fm) == TRUE

\* SetImportFormat: case CSV, TSV, FIXED, JSON, LTSV
Importable(fm) == fm \in {"CSV", "TSV", "FIXED", "JSON", "LTSV"}

SetImportFormat(s) ==
    /\ \E r \in ParseFormat(s, flags.ExportOptions.JsonEscape) :
          IF r.err # NoError
          THEN flagErr' = ImportFormatError /\ UNCHANGED flags
          ELSE IF Importable(r.fm)
               THEN /\ flags' = [flags EXCEPT !.ImportOptions.Format = r.fm]
                    /\ flagErr' = NoError
               ELSE flagErr' = ImportFormatError /\ UNCHANGED flags
    /\ UNCHANGED <<NumCPU, location>>

\* A format inferred from the extension as it is spelled.
ExtensionAsSpelled(outfile) == Ext(outfile)

\* SetFormat: strings.ToLower(filepath.Ext(outfile))
ExtensionOf(outfile) == ToLower(Ext(outfile))

\* SetFormat: the format of an extension, "" for the default case.
FormatOfExtension(ext) ==
    CASE ext = ".csv" -> "CSV"
      [] ext = ".tsv" -> "TSV"
      [] ext = ".json" -> "JSON"
      [] ext = ".ltsv" -> "LTSV"
      [] ext = ".md" -> "GFM"
      [] ext = ".org" -> "ORG"
      [] OTHER -> ""

\* SetFormat: escape keeps its zero value, txjson.Backslash, on the
\* extension path.
SetFormat(s, outfile) ==
    /\ IF s = ""
       THEN LET fm == FormatOfExtension(ExtensionOf(outfile))
            IN  IF fm = ""
                THEN flagErr' = NoError /\ UNCHANGED flags
                ELSE /\ flags' = [flags EXCEPT
                                     !.ExportOptions.Format = fm,
                                     !.ExportOptions.JsonEscape = "Backslash"]
                     /\ flagErr' = NoError
       ELSE \E r \in ParseFormat(s, flags.ExportOptions.JsonEscape) :
               IF r.err # NoError
               THEN flagErr' = r.err /\ UNCHANGED flags
               ELSE /\ flags' = [flags EXCEPT
                                    !.ExportOptions.Format = r.fm,
                                    !.ExportOptions.JsonEscape = r.escape]
                    /\ flagErr' = NoError
    /\ UNCHANGED <<NumCPU, location>>

JsonEscapeError == "json escape type must be one of BACKSLASH|HEX|HEXALL"

\* The names SetJsonEscape is called with.
EscapeNames == {"BACKSLASH", "HEX", "HEXALL", "UNICODE"}

\* ParseJsonEscapeType: the escape type of a name (JsonEscapeTypeLiteral).
ParseJsonEscapeType(s) ==
    CASE s = "BACKSLASH" -> [escape |-> "Backslash", err |-> NoError]
      [] s = "HEX" -> [escape |-> "HexDigits", err |-> NoError]
      [] s = "HEXALL" -> [escape |-> "AllWithHexDigits", err |-> NoError]
      [] OTHER -> [escape |-> "Backslash", err |-> JsonEscapeError]

SetJsonEscape(s) ==
    /\ LET r == ParseJsonEscapeType(s)
       IN  IF r.err # NoError
           THEN flagErr' = r.err /\ UNCHANGED flags
           ELSE /\ flags' = [flags EXCEPT !.ExportOptions.JsonEscape = r.escape]
                /\ flagErr' = NoError
    /\ UNCHANGED <<NumCPU, location>>

(***************************************************************************)
(* The other setters that can reject their argument.  The parsers and the  *)
(* file system are outside this package: a parser accepts the spellings    *)
(* the setter's error message names.                                       *)
(***************************************************************************)
RepositoryNotExistError == "repository does not exist"
RepositoryNotDirError == "repository must be a directory path"
TimezoneError == "timezone does not exist"
DelimiterError == "delimiter must be one character"
DelimiterPositionsError == "delimiter positions must be SPACES or a JSON array of integers"
EncodingError == "encoding must be one of AUTO|UTF8|UTF8M|UTF16|UTF16BE|UTF16LE|UTF16BEM|UTF16LEM|SJIS"
WriteEncodingError == "write-encoding must be one of UTF8|UTF8M|UTF16|UTF16BE|UTF16LE|UTF16BEM|UTF16LEM|SJIS"
WriteDelimiterError == "write-delimiter must be one character"
WriteDelimiterPositionsError == "write-delimiter-positions must be SPACES or a JSON array of integers"
LineBreakError == "line-break must be one of CRLF|CR|LF"

\* os.Stat(path): what the file system holds at the path.
FileStats == {"directory", "file", "missing"}

SetRepository(s, stat) ==
    /\ IF s = ""
       THEN flags' = [flags EXCEPT !.Repository = ""] /\ flagErr' = NoError
       ELSE IF stat = "missing"
            THEN flagErr' = RepositoryNotExistError /\ UNCHANGED flags
            ELSE IF stat # "directory"
                 THEN flagErr' = RepositoryNotDirError /\ UNCHANGED flags
                 ELSE /\ flags' = [flags EXCEPT !.Repository = s]
                      /\ flagErr' = NoError
    /\ UNCHANGED <<NumCPU, location>>

\* time.LoadLocation: the zones the machine knows.
Zones == {"Local", "UTC", "Asia/Tokyo"}

\* strings.EqualFold(s, "Local"), strings.EqualFold(s, "UTC")
ZoneName(s) ==
    IF s = "" \/ ToLower(s) = "local" THEN "Local"
    ELSE IF ToLower(s) = "utc" THEN "UTC" ELSE s

\* A SetLocation that stores the name before it loads the zone.
SetLocationStoringFirst(s) ==
    /\ flags' = [flags EXCEPT !.Location = ZoneName(s)]
    /\ IF ZoneName(s) \notin Zones
       THEN flagErr' = TimezoneError /\ UNCHANGED location
       ELSE location' = ZoneName(s) /\ flagErr' = NoError
    /\ UNCHANGED NumCPU

SetLocation(s) ==
    /\ IF ZoneName(s) \notin Zones
       THEN flagErr' = TimezoneError /\ UNCHANGED <<flags, location>>
       ELSE /\ flags' = [flags EXCEPT !.Location = ZoneName(s)]
            /\ location' = ZoneName(s)
            /\ flagErr' = NoError
    /\ UNCHANGED NumCPU

\* ParseDelimiter: one character.
ParseDelimiter(s) ==
    IF s \in {";", "|"} THEN [delimiter |-> s, err |-> NoError]
    ELSE [delimiter |-> "", err |-> DelimiterError]

\* ParseDelimiterPositions: SPACES, or a JSON array of integers, with the
\* prefix s for single-line.
ParseDelimiterPositions(s) ==
    CASE s = "SPACES" ->
            [delimiterPositions |-> NilPositions, singleLine |-> FALSE, err |-> NoError]
      [] s = "[1,2]" ->
            [delimiterPositions |-> [nil |-> FALSE, positions |-> <<1, 2>>],
             singleLine |-> FALSE, err |-> NoError]
      [] s = "s[1,2]" ->
            [delimiterPositions |-> [nil |-> FALSE, positions |-> <<1, 2>>],
             singleLine |-> TRUE, err |-> NoError]
      [] OTHER ->
            [delimiterPositions |-> NilPositions, singleLine |-> FALSE,
             err |-> DelimiterPositionsError]

\* ParseEncoding
ParseEncoding(s) ==
    IF s \in {"AUTO", "UTF8", "SJIS"} THEN [encoding |-> s, err |-> NoError]
    ELSE [encoding |-> "AUTO", err |-> EncodingError]

\* ParseLineBreak
ParseLineBreak(s) ==
    IF s \in {"CRLF", "CR", "LF"} THEN [lb |-> s, err |-> NoError]
    ELSE [lb |-> "", err |-> LineBreakError]

SetDelimiter(s) ==
    /\ IF s = "" THEN flagErr' = NoError /\ UNCHANGED flags
       ELSE LET r == ParseDelimiter(s)
            IN  IF r.err # NoError THEN flagErr' = r.err /\ UNCHANGED flags
                ELSE /\ flags' = [flags EXCEPT !.ImportOptions.Delimiter = r.delimiter]
                     /\ flagErr' = NoError
    /\ UNCHANGED <<NumCPU, location>>

SetDelimiterPositions(s) ==
    /\ IF s = "" THEN flagErr' = NoError /\ UNCHANGED flags
       ELSE LET r == ParseDelimiterPositions(s)
            IN  IF r.err # NoError THEN flagErr' = r.err /\ UNCHANGED flags
                ELSE /\ flags' = [flags EXCEPT
                           !.ImportOptions.DelimiterPositions = r.delimiterPositions,
                           !.ImportOptions.SingleLine = r.singleLine]
                     /\ flagErr' = NoError
    /\ UNCHANGED <<NumCPU, location>>

SetEncoding(s) ==
    /\ IF s = "" THEN flagErr' = NoError /\ UNCHANGED flags
       ELSE LET r == ParseEncoding(s)
            IN  IF r.err # NoError THEN flagErr' = r.err /\ UNCHANGED flags
                ELSE /\ flags' = [flags EXCEPT !.ImportOptions.Encoding = r.encoding]
                     /\ flagErr' = NoError
    /\ UNCHANGED <<NumCPU, location>>

\* if err != nil || encoding == text.AUTO
SetWriteEncoding(s) ==
    /\ IF s = "" THEN flagErr' = NoError /\ UNCHANGED flags
       ELSE LET r == ParseEncoding(s)
            IN  IF r.err # NoError \/ r.encoding = "AUTO"
                THEN flagErr' = WriteEncodingError /\ UNCHANGED flags
                ELSE /\ flags' = [flags EXCEPT !.ExportOptions.Encoding = r.encoding]
                     /\ flagErr' = NoError
    /\ UNCHANGED <<NumCPU, location>>

SetWriteDelimiter(s) ==
    /\ IF s = "" THEN flagErr' = NoError /\ UNCHANGED flags
       ELSE LET r == ParseDelimiter(s)
            IN  IF r.err # NoError
                THEN flagErr' = WriteDelimiterError /\ UNCHANGED flags
                ELSE /\ flags' = [flags EXCEPT !.ExportOptions.Delimiter = r.delimiter]
                     /\ flagErr' = NoError
    /\ UNCHANGED <<NumCPU, location>>

SetWriteDelimiterPositions(s) ==
    /\ IF s = "" THEN flagErr' = NoError /\ UNCHANGED flags
       ELSE LET r == ParseDelimiterPositions(s)
            IN  IF r.err # NoError
                THEN flagErr' = WriteDelimiterPositionsError /\ UNCHANGED flags
                ELSE /\ flags' = [flags EXCEPT
                           !.ExportOptions.DelimiterPositions = r.delimiterPositions,
                           !.ExportOptions.SingleLine = r.singleLine]
                     /\ flagErr' = NoError
    /\ UNCHANGED <<NumCPU, location>>

SetLineBreak(s) ==
    /\ IF s = "" THEN flagErr' = NoError /\ UNCHANGED flags
       ELSE LET r == ParseLineBreak(s)
            IN  IF r.err # NoError THEN flagErr' = r.err /\ UNCHANGED flags
                ELSE /\ flags' = [flags EXCEPT !.ExportOptions.LineBreak = r.lb]
                     /\ flagErr' = NoError
    /\ UNCHANGED <<NumCPU, location>>

\* A SetLimitRecursion that stores its argument as given.
StoredLimitRecursionAsGiven(i) == i

\* SetLimitRecursion: if i < 0 { i = -1 }
StoredLimitRecursion(i) == IF i < 0 THEN -1 ELSE i

SetLimitRecursion(i) ==
    /\ flags' = [flags EXCEPT !.LimitRecursion = StoredLimitRecursion(i)]
    /\ flagErr' = NoError
    /\ UNCHANGED <<NumCPU, location>>

\* A SetCPU without the upper limit.
StoredCPUAtLeastOne(i, numCPU) == IF i < 1 THEN 1 ELSE i

\* SetCPU: if i < 1 { i = 1 }; if runtime.NumCPU() < i { i = runtime.NumCPU() }
StoredCPU(i, numCPU) ==
    LET j == IF i < 1 THEN 1 ELSE i
    IN  IF numCPU < j THEN numCPU ELSE j

SetCPU(i) ==
    /\ flags' = [flags EXCEPT !.CPU = StoredCPU(i, NumCPU)]
    /\ flagErr' = NoError
    /\ UNCHANGED <<NumCPU, location>>

FlagsFrame ==
    UNCHANGED <<scopeVars, encVars, workerVars, tableVars, convertVars,
                cursorVars, iterVars, lineVars>>

FormatsNext ==
    \/ \E s \in FormatNames, outfile \in OutFiles :
          SetFormat(s, outfile) /\ FlagsFrame
    \/ \E s \in FormatNames : SetImportFormat(s) /\ FlagsFrame
    \/ \E s \in EscapeNames : SetJsonEscape(s) /\ FlagsFrame

\* A session's options, each given well and badly.
SettersNext ==
    \/ \E s \in {"", "repo"}, stat \in FileStats : SetRepository(s, stat) /\ FlagsFrame
    \/ \E s \in {"", "utc", "Nowhere"} : SetLocation(s) /\ FlagsFrame
    \/ \E s \in {"TSV", "GFM", "XML"} : SetImportFormat(s) /\ FlagsFrame
    \/ \E s \in {"", ";", ";;"} : SetDelimiter(s) /\ FlagsFrame
    \/ \E s \in {"", "s[1,2]", "[1,"} : SetDelimiterPositions(s) /\ FlagsFrame
    \/ \E s \in {"", "SJIS", "EBCDIC"} : SetEncoding(s) /\ FlagsFrame
    \/ \E s \in {"", "JSON", "XML"} : SetFormat(s, <<"a", ".csv">>) /\ FlagsFrame
    \/ \E s \in {"", "SJIS", "AUTO", "EBCDIC"} : SetWriteEncoding(s) /\ FlagsFrame
    \/ \E s \in {"", "|", "||"} : SetWriteDelimiter(s) /\ FlagsFrame
    \/ \E s \in {"", "[1,2]", "1,2"} : SetWriteDelimiterPositions(s) /\ FlagsFrame
    \/ \E s \in {"", "CRLF", "NL"} : SetLineBreak(s) /\ FlagsFrame
    \/ \E s \in {"HEX", "UNICODE"} : SetJsonEscape(s) /\ FlagsFrame

SettingsNext ==
    \/ \E t \in Float64s : SetWaitTimeout(t) /\ FlagsFrame
    \/ \E i \in -MaxSetting..MaxSetting : SetLimitRecursion(i) /\ FlagsFrame
    \/ \E i \in -1..(MaxNumCPU + 1) : SetCPU(i) /\ FlagsFrame

FlagsIdle ==
    NumCPU = 1 /\ flags = NewFlags(1) /\ flagErr = NoError /\ location = "Local"

FlagsInit ==
    /\ NumCPU \in 1..MaxNumCPU
    /\ flags = NewFlags(NumCPU)
    /\ flagErr = NoError
    /\ location = "Local"

(***************************************************************************)
(* Sequential evaluation: the scope CreateScopeForSequentialEvaluation     *)
(* returned is moved over the records of its view by NextRecord.           *)
(***************************************************************************)
\* A test that lets the index stand on the view's length once.
NoRecordLeftLate(len, recordIndex) == len < recordIndex

\* NextRecord: rs.Records[0].view.Len() <= rs.Records[0].recordIndex
NoRecordLeft(len, recordIndex) == len <= recordIndex

\* ReferenceRecord.IsInRange
IsInRange(r) == -1 < r.recordIndex /\ r.recordIndex < viewLen[r.view]

\* NextRecord on a scope with no record panics on rs.Records[0].  The
\* calls past the end are counted up to MaxLateCalls.
NextRecord(s) ==
    /\ Exists(s)
    /\ IF Len(scopes[s].Records) = 0
       THEN /\ ret' = Ret("NextRecord", s, "", "panic", IndexOutOfRange)
            /\ UNCHANGED scopes
       ELSE LET r == scopes[s].Records[1]
                idx == r.recordIndex + 1
            IN  /\ idx <= viewLen[r.view] + MaxLateCalls
                /\ scopes' = [scopes EXCEPT ![s].Records[1].recordIndex = idx]
                /\ ret' = Ret("NextRecord", s, "",
                              IF NoRecordLeft(viewLen[r.view], idx)
                              THEN "false" ELSE "true",
                              NoError)
    /\ UNCHANGED <<blockHeap, blockAlloc, blockPool, nodeHeap, nodeAlloc,
                   nodePool, kind, workerVars, encVars, restVars>>

\* A query over a view and, for each of its records, a query over another:
\* the inner scope is made while the outer one stands on a record.
IterateNext ==
    \/ LexicalNewRoot
    \/ \E s, t \in ScopeIds, view \in ViewIds :
          /\ Latest(s) /\ t \in {s, s + 1}
          /\ Len(scopes[s].Records) > 0 => IsInRange(scopes[s].Records[1])
          /\ view = Len(scopes[s].Records)
          /\ CreateScopeForSequentialEvaluation(s, t, view)
    \/ \E s \in ScopeIds : NextRecord(s)

\* ---------------------------------------------------------------------
\* The line editor's completer (readline-csvq/complete.go).
\*
\* A candidate is kept as the display width of its Name, which is all
\* that CompleteRefresh reads of it.  The edited line is kept by its
\* relation to candidateSource: "nil" (no source), "line" (the source
\* equals the line) or "other" (the line was edited since).

\* Go's integer division panics on a zero divisor; x % y takes the sign
\* of x.
DivideByZero == "integer divide by zero"

IndexOutOfRangePanic == "index out of range"

GoRem(x, y) == IF x >= 0 THEN x % y ELSE -((-x) % y)

CandidateLists ==
    UNION {[1..n -> 1..MaxNameWidth] : n \in 0..MaxCandidates}

newOpCompleter(width) ==
    [width |-> width, inCompleteMode |-> FALSE, inSelectMode |-> FALSE,
     candidates |-> <<>>, candidateSource |-> "nil", candidateOff |-> 0,
     candidateChoise |-> 0, candidateColNum |-> 0, panic |-> ""]

Panicked(o, why) == [newOpCompleter(o.width) EXCEPT !.panic = why]

\* The widest candidate plus one.
ColWidth(candidates) ==
    LET widest[i \in 0..Len(candidates)] ==
            IF i = 0 THEN 0
            ELSE IF candidates[i] > widest[i - 1] THEN candidates[i]
                 ELSE widest[i - 1]
    IN  widest[Len(candidates)] + 1

CompleteRefresh(o) ==
    IF ~o.inCompleteMode THEN o
    ELSE LET width == o.width - 1
             colNum == width \div ColWidth(o.candidates)
         IN  [o EXCEPT !.candidateColNum = colNum]

ExitCompleteSelectMode(o) ==
    [o EXCEPT !.inSelectMode = FALSE, !.candidates = <<>>,
              !.candidateChoise = -1, !.candidateOff = -1,
              !.candidateSource = "nil"]

ExitCompleteMode(o) ==
    ExitCompleteSelectMode([o EXCEPT !.inCompleteMode = FALSE])

EnterCompleteSelectMode(o) ==
    CompleteRefresh([o EXCEPT !.inSelectMode = TRUE, !.candidateChoise = -1])

EnterCompleteMode(o, offset, candidates) ==
    CompleteRefresh([o EXCEPT !.inCompleteMode = TRUE,
                              !.candidates = candidates,
                              !.candidateOff = offset])

nextCandidate(o, i) ==
    IF Len(o.candidates) = 0 THEN Panicked(o, DivideByZero)
    ELSE LET c == GoRem(o.candidateChoise + i, Len(o.candidates))
         IN  [o EXCEPT !.candidateChoise =
                           IF c < 0 THEN Len(o.candidates) + c ELSE c]

\* The single candidate replaces the word under the cursor and completion
\* ends; otherwise the choice moves on by one.
doSelect(o) ==
    IF Len(o.candidates) = 1 THEN ExitCompleteMode(o)
    ELSE LET n == nextCandidate(o, 1)
         IN  IF n.panic # "" THEN n ELSE CompleteRefresh(n)

\* getMatrixSize, for a column count that is not zero.
getMatrixSize(o) ==
    LET line == Len(o.candidates) \div o.candidateColNum
    IN  (IF Len(o.candidates) % o.candidateColNum # 0 THEN line + 1
         ELSE line) * o.candidateColNum

\* OnComplete with the candidates and the offset that AutoComplete.Do
\* returns for the line.
OnCompleteResult(o, newLines, offset) ==
    IF o.width = 0 THEN o
    ELSE IF o.inSelectMode THEN doSelect(o)
    ELSE IF o.inCompleteMode /\ o.candidateSource = "line"
         THEN doSelect(EnterCompleteSelectMode(o))
    ELSE LET x == [ExitCompleteSelectMode(o) EXCEPT
                       !.candidateSource = "line"]
         IN  IF Len(newLines) = 0 THEN ExitCompleteMode(x)
             ELSE IF ~x.inCompleteMode /\ Len(newLines) = 1
                  THEN ExitCompleteMode(x)
             ELSE EnterCompleteMode(x, offset, newLines)

Keys ==
    {"CharEnter", "CharLineStart", "CharLineEnd", "CharBackspace", "CharTab",
     "CharBell", "CharNext", "CharBackward", "CharPrev", "other"}

\* The switch of HandleCompleteSelect, before the closing refresh.
SelectKey(o, r) ==
    LET choise == o.candidateChoise
        colNum == o.candidateColNum
        len == Len(o.candidates)
    IN  CASE r = "CharEnter" ->
                 IF choise < 0 \/ choise >= len
                 THEN Panicked(o, IndexOutOfRangePanic)
                 ELSE ExitCompleteMode(o)
          [] r = "CharLineStart" ->
                 IF colNum = 0 THEN Panicked(o, DivideByZero)
                 ELSE nextCandidate(o, -GoRem(choise, colNum))
          [] r = "CharLineEnd" ->
                 IF colNum = 0 THEN Panicked(o, DivideByZero)
                 ELSE LET c == choise + colNum - GoRem(choise, colNum) - 1
                      IN  [o EXCEPT !.candidateChoise =
                                        IF c >= len THEN len - 1 ELSE c]
          [] r = "CharBackspace" -> ExitCompleteSelectMode(o)
          [] r = "CharTab" -> doSelect(o)
          [] r = "CharBell" -> ExitCompleteMode(o)
          [] r = "CharNext" ->
                 IF colNum = 0 THEN Panicked(o, DivideByZero)
                 ELSE LET tmpChoise == choise + colNum
                      IN  [o EXCEPT !.candidateChoise =
                              IF tmpChoise >= getMatrixSize(o)
                              THEN tmpChoise - getMatrixSize(o)
                              ELSE IF tmpChoise >= len
                              THEN tmpChoise + colNum - getMatrixSize(o)
                              ELSE tmpChoise]
          [] r = "CharBackward" -> nextCandidate(o, -1)
          [] r = "CharPrev" ->
                 LET tmpChoise == choise - colNum
                 IN  IF tmpChoise >= 0
                     THEN [o EXCEPT !.candidateChoise = tmpChoise]
                     ELSE IF colNum = 0 THEN Panicked(o, DivideByZero)
                     ELSE LET t == tmpChoise + getMatrixSize(o)
                          IN  [o EXCEPT !.candidateChoise =
                                  IF t >= len THEN t - colNum ELSE t]
          [] OTHER -> ExitCompleteSelectMode(o)

RefreshingKeys ==
    {"CharLineStart", "CharLineEnd", "CharTab", "CharNext", "CharBackward",
     "CharPrev"}

HandleCompleteSelectResult(o, r) ==
    LET n == SelectKey(o, r)
    IN  IF n.panic = "" /\ r \in RefreshingKeys THEN CompleteRefresh(n)
        ELSE n

CompleteFrame ==
    UNCHANGED <<scopeVars, encVars, workerVars, tableVars, convertVars,
                cursorVars, flagVars, iterVars, runeBuffer>>

OnComplete ==
    /\ completer.panic = ""
    /\ \E newLines \in CandidateLists, offset \in 0..1 :
          completer' = OnCompleteResult(completer, newLines, offset)
    /\ CompleteFrame

\* Operation hands a key to HandleCompleteSelect only in select mode.
HandleCompleteSelect(r) ==
    /\ completer.panic = ""
    /\ completer.inSelectMode
    /\ completer' = HandleCompleteSelectResult(completer, r)
    /\ CompleteFrame

OnWidthChange(newWidth) ==
    /\ completer.panic = ""
    /\ completer' = [completer EXCEPT !.width = newWidth]
    /\ CompleteFrame

\* A key that edits the line while candidates are listed but none is
\* selected: the line no longer equals candidateSource.
EditLine ==
    /\ completer.panic = ""
    /\ ~completer.inSelectMode
    /\ completer.candidateSource = "line"
    /\ completer' = [completer EXCEPT !.candidateSource = "other"]
    /\ CompleteFrame

CompleteNext ==
    \/ OnComplete
    \/ \E r \in Keys : HandleCompleteSelect(r)
    \/ \E newWidth \in 1..MaxWidth : OnWidthChange(newWidth)
    \/ EditLine

\* No line editor: the session is not interactive.
NoLineEditor == [nil |-> TRUE]

CompleterIdle == completer = NoLineEditor

CompleterInit == completer \in {newOpCompleter(w) : w \in 1..MaxWidth}

\* ---------------------------------------------------------------------
\* The line editor's buffer (readline-csvq/runebuf.go).

\* A []rune is kept as its backing array (arr, whose length is the
\* capacity) and its length: r.buf is arr[0:len].  Backup stores the slice
\* r.buf, not a copy: while bck.shared the backup reads runeBuffer.arr, and
\* it keeps the old array (bck.arr) once r.buf moves to a new one.
\* bck.saved records the runes r.buf held when Backup was called.
NoBackup ==
    [nil |-> TRUE, shared |-> FALSE, arr |-> <<>>, len |-> 0, idx |-> 0,
     saved |-> <<>>]

NewRuneBuffer ==
    [arr |-> <<>>, len |-> 0, idx |-> 0, lastKill |-> <<>>, bck |-> NoBackup,
     panic |-> ""]

RuneBufferIdle == runeBuffer = NoLineEditor

RuneBufferInit == runeBuffer = NewRuneBuffer

LineIdle == CompleterIdle /\ RuneBufferIdle

IterateIdle == viewLen = [v \in ViewIds |-> 0]

IterateInit == viewLen \in [ViewIds -> 0..MaxViewRecords]

RestIdle ==
    /\ TablesIdle /\ ConvertIdle /\ CursorsIdle /\ FlagsIdle /\ IterateIdle
    /\ LineIdle

\* No scope exists.
ScopeIdle == ScopeInit /\ kind = "variables"

Init == ScopeInit /\ EncodeIdle /\ WorkerIdle /\ RestIdle

InitEncode == ScopeIdle /\ EncodeInit /\ WorkerIdle /\ RestIdle

InitWorkers == WorkerInit /\ EncodeIdle /\ RestIdle

InitTables ==
    /\ ScopeInit /\ kind = "temporaryTables" /\ EncodeIdle /\ WorkerIdle
    /\ TablesInit /\ ConvertIdle /\ CursorsIdle /\ FlagsIdle /\ IterateIdle
    /\ LineIdle

InitConvert ==
    /\ ScopeIdle /\ EncodeIdle /\ WorkerIdle /\ TablesIdle /\ CursorsIdle
    /\ FlagsIdle /\ IterateIdle /\ ConvertInit /\ LineIdle

InitCursors ==
    ScopeInit /\ kind = "cursors" /\ EncodeIdle /\ WorkerIdle /\ RestIdle

Spec == Init /\ [][LexicalNext]_vars

SpecAnyOrder == Init /\ [][AnyOrderNext]_vars

SpecEncode == InitEncode /\ [][EncodeNext]_vars

SpecWorkers == InitWorkers /\ [][WorkerNext]_vars

InitIdle == ScopeIdle /\ EncodeIdle /\ WorkerIdle /\ RestIdle

SpecFrames == InitIdle /\ [][FramesNext]_vars

SpecCache == InitIdle /\ [][CacheNext]_vars

SpecCacheAdds == InitIdle /\ [][CacheAddsNext]_vars

SpecCursors == InitCursors /\ [][CursorsNext]_vars

SpecConvert == InitConvert /\ [][ConvertNext]_vars

SpecTables == InitTables /\ [][TablesNext]_vars

InitIterate ==
    /\ ScopeIdle /\ EncodeIdle /\ WorkerIdle /\ TablesIdle /\ ConvertIdle
    /\ CursorsIdle /\ FlagsIdle /\ IterateInit /\ LineIdle

SpecIterate == InitIterate /\ [][IterateNext]_vars

InitNodes == NodesInit /\ EncodeIdle /\ WorkerIdle /\ RestIdle

InitChild == ChildInit /\ EncodeIdle /\ WorkerIdle /\ RestIdle

SpecChild == InitChild /\ [][ChildNext]_vars

SpecNodes == InitNodes /\ [][NodesNext]_vars

InitFlags ==
    /\ ScopeIdle /\ EncodeIdle /\ WorkerIdle /\ TablesIdle /\ ConvertIdle
    /\ CursorsIdle /\ IterateIdle /\ FlagsInit /\ LineIdle

SpecFormats == InitIdle /\ [][FormatsNext]_vars

SpecSettings == InitFlags /\ [][SettingsNext]_vars

SpecSetters == InitIdle /\ [][SettersNext]_vars

(***************************************************************************)
(* Properties of the reference scopes                                      *)
(***************************************************************************)
\* The indexes of the blocks of scope s whose map field holds n.
Holders(s, field, n) ==
    {i \in 1..Len(scopes[s].blocks) :
        blockHeap[scopes[s].blocks[i]][field][n] # Absent}

Innermost(S) == CHOOSE i \in S : \A j \in S : i <= j

\* The scopes whose block stack is the stack blocks without its first i - 1
\* blocks, for some i in from..to.
ScopesOver(blocks, from, to) ==
    {p \in ScopeIds :
        /\ Exists(p)
        /\ \E i \in from..to : scopes[p].blocks = SubSeq(blocks, i, Len(blocks))}

DeclareVariableOps == {"DeclareVariable", "DeclareVariableDirectly"}

SubstituteOps == {"SubstituteVariable", "SubstituteVariableDirectly"}

DeclareOps ==
    DeclareVariableOps \cup
    {"DeclareCursor", "AddPseudoCursor", "DeclareFunction",
     "DeclareAggregateFunction", "SetTemporaryTable"}

DeclaredField(op) ==
    CASE op \in DeclareVariableOps -> "variables"
      [] op = "SetTemporaryTable" -> "temporaryTables"
      [] op \in {"DeclareCursor", "AddPseudoCursor"} -> "cursors"
      [] OTHER -> "functions"

\* C1: scope isolation (visibility).  A DeclareVariable or
\* DeclareVariableDirectly call on a scope changes no block of the stack
\* below its block 0, so no block of the parent's stack gains an entry from a
\* declaration made in a child; and when a child scope closes its block, the
\* scope and the blocks of its parent are left as they were, and GetVariable
\* on the parent for a variable the child's block held returns the
\* undeclared-variable error unless a block of the parent's own stack
\* declares that name.
C1_DeclarationInChildNotVisibleAfterClose ==
    [][ /\ ret'.op \in DeclareVariableOps =>
              \A i \in 2..Len(scopes[ret'.scope].blocks) :
                  blockHeap'[scopes[ret'.scope].blocks[i]] =
                      blockHeap[scopes[ret'.scope].blocks[i]]
        /\ (ret'.op = "CloseCurrentBlock" /\ Len(ret'.blocks) >= 2) =>
              \A p \in ScopesOver(ret'.blocks, 2, 2) \ {ret'.scope} :
                  /\ scopes'[p] = scopes[p]
                  /\ \A i \in 1..Len(scopes[p].blocks) :
                        blockHeap'[scopes[p].blocks[i]] = blockHeap[scopes[p].blocks[i]]
                  /\ \A n \in Names :
                        (n = ret'.name /\ Holders(p, "variables", n) = {}) =>
                            GetVariableValue(p, n)' =
                                [val |-> Absent, err |-> UndeclaredVariableError]
      ]_vars

\* A child that held a variable has closed its block and the parent, whose
\* stack does not declare the variable, does not see it.
C1_Witness ==
    /\ ret.op = "CloseCurrentBlock"
    /\ Len(ret.blocks) >= 2
    /\ ret.name \in Names
    /\ \E p \in ScopeIds \ {ret.scope} :
          /\ Exists(p)
          /\ scopes[p].blocks = Tail(ret.blocks)
          /\ GetVariableValue(p, ret.name).err = UndeclaredVariableError

\* C2: scope isolation (assignment).  SubstituteVariable (its value
\* expression evaluated) or SubstituteVariableDirectly called on a scope for
\* a variable whose innermost declaration is in block d stores the new value
\* in block d: every scope whose stack starts between block 1 and block d of
\* the receiver, the parent among them, reads the new value with GetVariable
\* afterwards; no block inside d gains an entry for the name and no other
\* block is changed.  When no block declares the variable the call returns
\* the undeclared-variable error and no block is changed.
C2_SubstituteChangesDefiningBlock ==
    [][ \A n \in Names :
        (ret'.op \in SubstituteOps /\ ret'.err # EvalError /\ ret'.name = n) =>
          LET s == ret'.scope
              blocks == scopes[s].blocks
              H == Holders(s, "variables", n)
          IN  /\ scopes' = scopes
              /\ nodeHeap' = nodeHeap
              /\ H = {} => /\ ret'.err = UndeclaredVariableError
                           /\ blockHeap' = blockHeap
              /\ H # {} =>
                    LET d == Innermost(H)
                    IN  /\ ret'.err = NoError
                        /\ blockHeap'[blocks[d]].variables[n] = ret'.val
                        /\ \A b \in BlockIds \ {blocks[d]} :
                              blockHeap'[b] = blockHeap[b]
                        /\ \A j \in 1..(d - 1) :
                              blockHeap'[blocks[j]].variables[n] = Absent
                        /\ \A p \in ScopesOver(blocks, 1, d) :
                              GetVariableValue(p, n)' =
                                  [val |-> ret'.val, err |-> NoError]
      ]_vars

\* A substitution through a child has reached a variable declared only in
\* an outer block, and the parent reads the new value.
C2_Witness ==
    /\ ret.op \in SubstituteOps
    /\ ret.err = NoError
    /\ ret.hit >= 2
    /\ Exists(ret.scope)
    /\ blockHeap[scopes[ret.scope].blocks[1]].variables[ret.name] = Absent
    /\ \E p \in ScopeIds \ {ret.scope} :
          /\ Exists(p)
          /\ scopes[p].blocks = Tail(scopes[ret.scope].blocks)
          /\ GetVariableValue(p, ret.name) = [val |-> ret.val, err |-> NoError]

\* C3: declarations target block 0.  DeclareVariable,
\* DeclareVariableDirectly, DeclareCursor, AddPseudoCursor, DeclareFunction,
\* DeclareAggregateFunction and SetTemporaryTable, on a scope with any
\* number of blocks, change nothing but the map of the receiver's block 0
\* that the method declares in: a successful call leaves the declared entry
\* under the name in block 0, a rejected call changes nothing, and every
\* other block keeps its contents, also when it holds the same name.
C3_DeclarationsTargetBlockZero ==
    [][ ret'.op \in DeclareOps =>
          LET b0 == scopes[ret'.scope].blocks[1]
              f == DeclaredField(ret'.op)
          IN  /\ \A b \in BlockIds \ {b0} : blockHeap'[b] = blockHeap[b]
              /\ \A g \in BlockKinds \ {f} : blockHeap'[b0][g] = blockHeap[b0][g]
              /\ ret'.err = NoError => blockHeap'[b0][f][ret'.name] = ret'.val
              /\ ret'.err # NoError => blockHeap'[b0] = blockHeap[b0]
              /\ nodeHeap' = nodeHeap
              /\ scopes' = scopes
      ]_vars

\* A name has been declared in block 0 of a scope whose outer block holds a
\* different entry under the same name, and the outer block still holds it.
C3_Witness ==
    /\ ret.op \in DeclareOps
    /\ ret.err = NoError
    /\ Exists(ret.scope)
    /\ Len(scopes[ret.scope].blocks) >= 2
    /\ LET blocks == scopes[ret.scope].blocks
           f == DeclaredField(ret.op)
       IN  /\ blocks[1] # blocks[2]
           /\ blockHeap[blocks[1]][f][ret.name] = ret.val
           /\ blockHeap[blocks[2]][f][ret.name] \notin {Absent, ret.val}

\* What a read of name n in map field through scope s is to return: the
\* entry of the innermost block that holds n, or the error when none does.
InnermostEntry(s, field, n, e) ==
    IF Holders(s, field, n) = {}
    THEN [val |-> Absent, err |-> e]
    ELSE [val |-> blockHeap[scopes[s].blocks[Innermost(Holders(s, field, n))]][field][n],
          err |-> NoError]

\* C4: reads return the first hit from block 0 outward.  For every scope
\* and name, GetVariable, GetTemporaryTable and GetFunction return the
\* entry of the innermost block that holds the name (an inner declaration
\* shadows the outer ones), and the undeclared / not-exist error when no
\* block holds it.
C4_ReadsReturnInnermostEntry ==
    \A s \in ScopeIds, n \in Names :
        Exists(s) =>
            /\ GetVariableValue(s, n) =
                   InnermostEntry(s, "variables", n, UndeclaredVariableError)
            /\ GetTemporaryTableValue(s, n) =
                   InnermostEntry(s, "temporaryTables", n, UndeclaredTemporaryTableError)
            /\ GetFunctionValue(s, n) =
                   InnermostEntry(s, "functions", n, FunctionNotExistError)

\* A scope whose two innermost blocks hold different values for a variable
\* reads the inner one.
C4_Witness ==
    \E s \in ScopeIds, n \in Names :
        /\ Exists(s)
        /\ Len(scopes[s].blocks) >= 2
        /\ blockHeap[scopes[s].blocks[1]].variables[n] = "v1"
        /\ blockHeap[scopes[s].blocks[2]].variables[n] = "v2"
        /\ GetVariableValue(s, n) = [val |-> "v1", err |-> NoError]

\* C5 as claimed: DisposeVariable acts on block 0 only.  Called on a scope
\* for a variable that only an outer block declares, it leaves the outer
\* blocks unchanged and the variable visible from the parent scope.
C5_DisposeLeavesOuterBlocks ==
    [][ (ret'.op = "DisposeVariable"
            /\ Holders(ret'.scope, "variables", ret'.name) # {}
            /\ 1 \notin Holders(ret'.scope, "variables", ret'.name)) =>
          /\ \A i \in 2..Len(scopes[ret'.scope].blocks) :
                blockHeap'[scopes[ret'.scope].blocks[i]] =
                    blockHeap[scopes[ret'.scope].blocks[i]]
          /\ \A p \in ScopesOver(scopes[ret'.scope].blocks, 2, 2), n \in Names :
                n = ret'.name => GetVariableValue(p, n)'.err = NoError
      ]_vars

\* C5 (amended): DisposeVariable walks the blocks from block 0 outward and
\* removes the variable from the innermost block that holds it, an outer
\* block when no inner one declares it: after the call that block no longer
\* holds the name, every other block is unchanged, and the call returns the
\* undeclared-variable error, changing nothing, only when no block of the
\* stack holds the name.
C5_DisposeRemovesInnermostDeclaration ==
    [][ ret'.op = "DisposeVariable" =>
          LET s == ret'.scope
              n == ret'.name
              blocks == scopes[s].blocks
              H == Holders(s, "variables", n)
          IN  /\ scopes' = scopes
              /\ nodeHeap' = nodeHeap
              /\ H = {} => /\ ret'.err = UndeclaredVariableError
                           /\ blockHeap' = blockHeap
              /\ H # {} =>
                    LET d == Innermost(H)
                    IN  /\ ret'.err = NoError
                        /\ blockHeap'[blocks[d]] =
                              [blockHeap[blocks[d]] EXCEPT !.variables[n] = Absent]
                        /\ \A b \in BlockIds \ {blocks[d]} :
                              blockHeap'[b] = blockHeap[b]
      ]_vars

\* A disposal through a child has removed a variable that only an outer
\* block declared: the parent no longer sees it.
C5_Witness ==
    /\ ret.op = "DisposeVariable"
    /\ ret.err = NoError
    /\ ret.hit >= 2
    /\ Exists(ret.scope)
    /\ \E p \in ScopeIds \ {ret.scope} :
          /\ Exists(p)
          /\ scopes[p].blocks = Tail(scopes[ret.scope].blocks)
          /\ GetVariableValue(p, ret.name).err = UndeclaredVariableError

\* C9: pooled scopes come back empty.  Block 0 of the scope that CreateChild
\* or NewReferenceScope has just returned, and node 0 of the scope that
\* CreateNode has just returned, hold no entry, whatever calls came before
\* (declarations through a closed scope and double closes among them).
C9_CreatedScopeIsEmpty ==
    /\ ret.op \in {"CreateChild", "NewReferenceScope"} =>
          blockHeap[scopes[ret.scope].blocks[1]] = NewBlockScope
    /\ ret.op = "CreateNode" =>
          nodeHeap[scopes[ret.scope].nodes[1]] = NewNodeScope

\* The scopes that got their current block (node) from the pool and have not
\* returned it.
BlockHolders(b) ==
    {s \in ScopeIds : Exists(s) /\ OwnsBlock(s) /\ CurrentBlock(s) = b}

NodeHolders(n) ==
    {s \in ScopeIds : Exists(s) /\ OwnsNode(s) /\ scopes[s].nodes[1] = n}

C6_CancelledCheckReturnsContextError ==
    /\ encLate.pass \in {"loop", "measure"} => ~AtCheck(encLate.idx)
    /\ (encPc = "done" /\ encSeen = ContextCanceledErr) => encRet = ContextCanceled
    /\ (encPc = "done" /\ encSeen = ContextDeadlineErr) =>
          encRet = ContextDeadlineExceeded

\* The index of the record that the iteration at a place of a loop handles.
RecordAt(p) == IF p.pass = "write" THEN p.idx - RecordStartPos ELSE p.idx

\* The least multiple of 16 that is not below i.
NextCheckFrom(i) ==
    IF i <= 0 THEN 0 ELSE ((i + CheckMask) \div (CheckMask + 1)) * (CheckMask + 1)

\* C7 as claimed: once the context has been cancelled, no record whose
\* record index is at or beyond the next multiple of 16 is converted or
\* written.
C7_NoRecordBeyondNextRecordCheck ==
    (ctxErr # NoError /\ encLate # NoRecord) =>
        RecordAt(encLate) < NextCheckFrom(RecordAt(cancelAt))

\* C7 (amended): once the context has been cancelled, an encoder goes
\* through its current loop at most up to the next loop index that is a
\* multiple of 16, at most 15 further iterations, and through no other loop;
\* no record whose loop index is at or beyond that index is converted or
\* written, the records an encoder writes in one piece after its loop all
\* lying below it.  The loop index is the record index, except in the
\* writing pass of encodeFixedLengthFormat without delimiter positions,
\* where it is the index of the output line.
C7_NoRecordBeyondNextLoopCheck ==
    (ctxErr # NoError /\ encLate # NoRecord) =>
        /\ encLate.pass \in {cancelAt.pass, "output"}
        /\ encLate.idx < NextCheckFrom(cancelAt.idx)
        /\ encLate.pass # "output" => encLate.idx - cancelAt.idx + 1 <= CheckMask

\* The context was cancelled during the writing pass of the fixed-length
\* encoder, after the header line; the encoder wrote up to line 15 and
\* returned the context error at line 16.
C7_Witness ==
    /\ encPc = "done"
    /\ encSeen # NoError
    /\ ~encOpt.withoutHeader
    /\ cancelAt.pass = "write"
    /\ cancelAt.idx = 1
    /\ encLate = [pass |-> "write", idx |-> CheckMask]
    /\ encRet \in {ContextCanceled, ContextDeadlineExceeded}

(***************************************************************************)
(* Properties of the record frames                                         *)
(***************************************************************************)
\* C8: workers share no mutable frame state.  No FieldIndexCache object
\* has had Add called on it by two workers, and no cache of an outer record
\* frame (Records[1..]) of one worker's scope is the cache of an outer
\* record frame of another worker's scope.
C8_WorkersShareNoCache ==
    /\ \A c \in CacheIds : Cardinality(cacheWriters[c]) <= 1
    /\ \A v, w \in Workers :
          v # w =>
              \A i \in 2..Len(workerScope[v].Records),
                 j \in 2..Len(workerScope[w].Records) :
                  workerScope[v].Records[i].cache # workerScope[w].Records[j].cache

(***************************************************************************)
(* Properties of the temporary tables                                      *)
(***************************************************************************)
\* The tables of scope s whose path is in the set u and that are not the
\* stdin view.
UncomittedTables(s, u) ==
    {blockHeap[scopes[s].blocks[i]].temporaryTables[n] :
        i \in 1..Len(scopes[s].blocks), n \in u}
    \ ({Absent} \cup {v \in Views : viewHeap[v].isStdin})

\* C11: for a temporary table of the scope that is not the stdin view and
\* whose path is in the uncommitted-views set, StoreTemporaryTable leaves the
\* contents alone and makes the restore point equal to them; no other
\* operation changes a restore point; RestoreTemporaryTable makes the
\* contents of a table that has a restore point equal to it.
C11_CommitRollbackRoundTrip ==
    [][/\ ret'.op = "StoreTemporaryTable" =>
             \A v \in UncomittedTables(ret'.scope, uncomittedViews') :
                /\ viewHeap'[v].contents = viewHeap[v].contents
                /\ viewHeap'[v].restorePoint = viewHeap[v].contents
       /\ ret'.op # "StoreTemporaryTable" =>
             \A v \in Views : viewHeap'[v].restorePoint = viewHeap[v].restorePoint
       /\ ret'.op = "RestoreTemporaryTable" =>
             \A v \in UncomittedTables(ret'.scope, uncomittedViews') :
                viewHeap[v].restorePoint # NoRestorePoint =>
                   viewHeap'[v].contents = viewHeap[v].restorePoint
      ]_vars

\* A rollback through a child scope has returned a table of the outer block
\* to the restore point a commit made after the table's contents had been
\* changed.
C11_Witness ==
    /\ ret.op = "RestoreTemporaryTable"
    /\ Len(scopes[ret.scope].blocks) = 2
    /\ LET v == blockHeap[scopes[ret.scope].blocks[2]].temporaryTables["a"]
       IN  /\ "a" \in uncomittedViews
           /\ v # Absent
           /\ ~viewHeap[v].isStdin
           /\ viewHeap[v].restorePoint = "rows1"
           /\ viewHeap[v].contents = "rows1"

\* C12: CreateScopeForRecordEvaluation(view, i) called by a worker on scope
\* s returns a scope whose Records[0] is (view, i) with a cache of its own
\* that is empty, whose Records[1..] are the Records of s in the same order
\* and whose blocks and nodes are those of s; the scopes, among them s with
\* its Records, the blocks, the nodes and the caches that existed are as
\* before the call.
C12_RecordScopePushesOneFrame ==
    [][\A s \in ScopeIds, w \in Workers, view \in ViewIds,
          i \in 0..(MaxWorkers - 1) :
          CreateScopeForRecordEvaluation(s, w, view, i) =>
             LET r == workerScope'[w]
                 c == r.Records[1].cache
             IN  /\ Len(r.Records) = Len(scopes[s].Records) + 1
                 /\ r.Records[1].view = view
                 /\ r.Records[1].recordIndex = i
                 /\ cacheHeap'[c].m.nil
                 /\ cacheHeap'[c].exprs = <<>>
                 /\ cacheHeap'[c].indices = <<>>
                 /\ \A t \in ScopeIds : \A j \in 1..Len(scopes[t].Records) :
                       c # scopes[t].Records[j].cache
                 /\ \A v \in Workers \ {w} :
                       \A j \in 1..Len(workerScope[v].Records) :
                          c # workerScope[v].Records[j].cache
                 /\ \A j \in 1..Len(scopes[s].Records) :
                       r.Records[j + 1] = scopes[s].Records[j]
                 /\ r.blocks = scopes[s].blocks
                 /\ r.nodes = scopes[s].nodes
                 /\ scopes' = scopes
                 /\ blockHeap' = blockHeap
                 /\ nodeHeap' = nodeHeap
                 /\ \A d \in CacheIds \ {c} : cacheHeap'[d] = cacheHeap[d]
                 /\ \A v \in Workers \ {w} : workerScope'[v] = workerScope[v]
      ]_vars

\* A worker has made its scope for record 1 from a child scope that holds
\* one record frame.
C12_Witness ==
    \E s \in ScopeIds, w \in Workers :
        /\ workerPc[w] = "eval"
        /\ Len(scopes[s].blocks) = 2
        /\ Len(scopes[s].Records) = 1
        /\ Len(workerScope[w].Records) = 2
        /\ workerScope[w].Records[1].recordIndex = 1
        /\ workerScope[w].Records[2] = scopes[s].Records[1]
        /\ workerScope[w].blocks = scopes[s].blocks

(***************************************************************************)
(* Properties of the field-index cache                                     *)
(***************************************************************************)
\* C13: the cache holds its entries in the two lists exactly while it holds
\* at most LimitToUseFieldIndexSliceChache (8) of them; in every state
\* either the map is nil and the lists are not, or the lists are nil and
\* the map is not; the two lists have the same length; and a cache that
\* uses the map uses it in every later state.
C13_OneRepresentationInUse ==
    /\ [](LET c == cacheHeap[1]
          IN  /\ c.m.nil # c.listsNil
              /\ Len(c.exprs) = Len(c.indices)
              /\ c.m.nil <=> CacheLen(c) <= LimitToUseFieldIndexSliceChache
              /\ c.listsNil => c.exprs = <<>>
              /\ c.m.nil => c.m.entries = <<>>)
    /\ [][~cacheHeap[1].m.nil => ~cacheHeap'[1].m.nil]_vars

\* The cache has moved to the map at the ninth entry and holds a tenth.
C13_Witness ==
    /\ ~cacheHeap[1].m.nil
    /\ cacheHeap[1].listsNil
    /\ CacheLen(cacheHeap[1]) = LimitToUseFieldIndexSliceChache + 2
    /\ \A k \in 1..(LimitToUseFieldIndexSliceChache + 2) :
          [view |-> 0, column |-> k] \in DOMAIN cacheHeap[1].m.entries

(***************************************************************************)
(* Properties of the conversions                                           *)
(***************************************************************************)
\* C14 as claimed: a record field is handed to the CSV writer with its
\* quote flag set if and only if EncloseAll is true or the value is a
\* String or a Datetime.
C14_QuoteIfEncloseAllOrStringOrDatetime ==
    cvOut.fn = "encodeCSV" =>
        \A j \in DOMAIN cvIn.record :
            cvOut.fields[j].Quote <=>
                (cvIn.EncloseAll \/ cvIn.record[j].type \in {"String", "Datetime"})

\* C14: a record field is handed to the CSV writer with its quote flag set
\* if and only if EncloseAll is true and the value is a String or a
\* Datetime.
C14_QuoteIfEncloseAllAndStringOrDatetime ==
    cvOut.fn = "encodeCSV" =>
        \A j \in DOMAIN cvIn.record :
            cvOut.fields[j].Quote <=>
                (cvIn.EncloseAll /\ cvIn.record[j].type \in {"String", "Datetime"})

\* With EncloseAll a record of a Datetime and an Integer has been converted:
\* the first field is to be quoted, the second is not.
C14_Witness ==
    /\ cvOut.fn = "encodeCSV"
    /\ cvIn.EncloseAll
    /\ Len(cvIn.record) = 2
    /\ cvIn.record[1].type = "Datetime" /\ cvOut.fields[1].Quote
    /\ cvIn.record[2].type = "Integer" /\ ~cvOut.fields[2].Quote

(***************************************************************************)
(* Properties of the cursors                                               *)
(***************************************************************************)
\* C15: OpenCursor leaves the cursor open before row 0.  A FETCH NEXT on an
\* open cursor over N rows that last returned row k (k = -1 after the open)
\* returns row k + 1 when k + 1 < N; when no row is left it returns no row
\* (NOT FOUND), and so does every later one, the cursor standing at N.  The
\* cursor a fetch works on stays open with its N rows; an open cursor is
\* closed by CloseCursor only.
C15_FetchNextExhausts ==
    [][/\ (ret'.op \in {"OpenCursor", "FetchCursor"} /\ ret'.err = NoError) =>
             LET b == scopes[ret'.scope].blocks[ret'.hit]
                 before == cursorHeap[b][ret'.name]
                 after == cursorHeap'[b][ret'.name]
             IN  IF ret'.op = "OpenCursor"
                 THEN after.open /\ after.index = -1
                 ELSE /\ after.open /\ after.len = before.len
                      /\ IF before.index + 1 < before.len
                         THEN /\ fetched' = [row |-> before.index + 1,
                                             notFound |-> FALSE]
                              /\ after.index = before.index + 1
                         ELSE /\ fetched' = [row |-> -1, notFound |-> TRUE]
                              /\ after.index = before.len
       /\ \A b \in BlockIds, n \in Names :
             (cursorHeap[b][n].open /\ ~cursorHeap'[b][n].open) =>
                 ret'.op = "CloseCursor"
      ]_vars

\* A child scope has fetched from the exhausted cursor of the outer block
\* once more: no row, and the cursor is still open after its last row.
C15_Witness ==
    /\ ret.op = "FetchCursor" /\ ret.err = NoError /\ ret.hit = 2
    /\ fetched = [row |-> -1, notFound |-> TRUE]
    /\ LET cur == cursorHeap[scopes[ret.scope].blocks[2]][ret.name]
       IN  cur.open /\ cur.len = MaxCursorRows /\ cur.index = cur.len

(***************************************************************************)
(* Properties of the block stack                                           *)
(***************************************************************************)
\* C16: a root scope has one block.  CreateChild returns a scope whose
\* block stack is a block of its own at index 0 followed by the receiver's
\* stack: one deeper, with the receiver's Global().  CreateNode,
\* CreateScopeForRecordEvaluation, CreateScopeForSequentialEvaluation and
\* CreateScopeForAnalytics return a scope with the receiver's block stack.
\* So the depth of a scope is 1 plus the number of CreateChild steps on its
\* path from the root, and in every state every scope has a block at index
\* 0, its CurrentBlock(), and has the root's block as its Global().
C16_BlockStackShape ==
    /\ [](\A s \in ScopeIds :
             Exists(s) =>
                /\ Len(scopes[s].blocks) >= 1
                /\ CurrentBlock(s) = scopes[s].blocks[1]
                /\ Global(s) = scopes[1].blocks[Len(scopes[1].blocks)]
                /\ scopes[1].origin = "root" => Global(s) = scopes[1].blocks[1])
    /\ [](\A w \in Workers :
             workerScope[w] # NoScope =>
                /\ Len(workerScope[w].blocks) >= 1
                /\ workerScope[w].blocks[Len(workerScope[w].blocks)] = Global(1))
    /\ [][\A s, t \in ScopeIds :
             /\ NewReferenceScope(t) => Len(scopes'[t].blocks) = 1
             /\ CreateChild(s, t) =>
                   /\ Len(scopes'[t].blocks) = Len(scopes[s].blocks) + 1
                   /\ Tail(scopes'[t].blocks) = scopes[s].blocks
                   /\ \A i \in 1..Len(scopes[s].blocks) :
                         scopes'[t].blocks[1] # scopes[s].blocks[i]
             /\ (\/ CreateNode(s, t)
                 \/ \E view \in ViewIds :
                       CreateScopeForSequentialEvaluation(s, t, view)
                 \/ (CreateScopeForAnalytics(s, t) /\ ret'.err = NoError))
                   => scopes'[t].blocks = scopes[s].blocks
             /\ \A w \in Workers, view \in ViewIds, i \in 0..(MaxWorkers - 1) :
                   CreateScopeForRecordEvaluation(s, w, view, i) =>
                       workerScope'[w].blocks = scopes[s].blocks
         ]_vars

\* A worker's record scope made from an analytics scope that was made from
\* the scope of a sequential evaluation in a child of the root: two blocks,
\* the root's block outermost.
C16_Witness ==
    \E w \in Workers :
        /\ workerScope[w] # NoScope
        /\ ret.op = "CreateScopeForAnalytics" /\ ret.err = NoError
        /\ scopes[1].origin = "root" /\ scopes[2].origin = "record"
        /\ Len(scopes[2].blocks) = 2
        /\ workerScope[w].blocks = scopes[2].blocks
        /\ Len(workerScope[w].Records) = Len(scopes[2].Records) + 1
        /\ workerScope[w].blocks[2] = scopes[1].blocks[1]

\* C17 as claimed: when DelimiterPositions is nil the measure that
\* generates the positions has the export options EastAsianEncoding,
\* CountDiacriticalSign and CountFormatCode; when positions are given they
\* are used as given and no measure is made.
C17_MeasureHonoursWidthOptions ==
    cvOut.fn = "encodeFixedLengthFormat" =>
        IF cvIn.DelimiterPositions = "nil"
        THEN /\ cvOut.m.made
             /\ cvOut.m.EastAsianEncoding = cvIn.EastAsianEncoding
             /\ cvOut.m.CountDiacriticalSign = cvIn.CountDiacriticalSign
             /\ cvOut.m.CountFormatCode = cvIn.CountFormatCode
        ELSE /\ ~cvOut.m.made
             /\ cvOut.positions = cvIn.DelimiterPositions

\* C18 as claimed: for GFM, ORG and TEXT output the alignment set on the
\* table encoder for a column is that of the first record's value: right
\* for Integer and Float, centering for Boolean and Ternary, not aligned
\* for the other kinds.
C18_AlignmentSetForEveryTableFormat ==
    (cvOut.fn = "encodeText" /\ cvOut.err = NoError /\ cvIn.column # <<>>) =>
        /\ cvOut.SetFieldAlignments
        /\ cvOut.aligns =
              CASE cvIn.column[1].type \in {"Integer", "Float"} -> "RightAligned"
                [] cvIn.column[1].type \in {"Boolean", "Ternary"} -> "Centering"
                [] OTHER -> "NotAligned"

\* C18: for GFM output the alignment set on the table encoder for a column
\* is that of the first record's value, whatever the later records hold:
\* right for Integer and Float, centering for Boolean and for a Ternary
\* that is not UNKNOWN, not aligned for the other values.  For ORG and TEXT
\* output no column alignment is set on the encoder.
C18_AlignmentSetForGFMFromFirstRecord ==
    (cvOut.fn = "encodeText" /\ cvOut.err = NoError) =>
        /\ cvOut.SetFieldAlignments <=> cvIn.Format = "GFM"
        /\ (cvIn.Format = "GFM" /\ cvIn.column # <<>>) =>
              cvOut.aligns =
                 CASE cvIn.column[1].type \in {"Integer", "Float"} -> "RightAligned"
                   [] cvIn.column[1].type = "Boolean" -> "Centering"
                   [] /\ cvIn.column[1].type = "Ternary"
                      /\ cvIn.column[1].ternary # "UNKNOWN" -> "Centering"
                   [] OTHER -> "NotAligned"

\* A GFM table whose first record holds an Integer and whose second record
\* holds a String: the column is right-aligned.
C18_Witness ==
    /\ cvOut.fn = "encodeText" /\ cvOut.err = NoError
    /\ cvIn.Format = "GFM"
    /\ Len(cvIn.column) = 2
    /\ cvIn.column[1].type = "Integer"
    /\ cvIn.column[2].type = "String"
    /\ cvOut.SetFieldAlignments
    /\ cvOut.aligns = "RightAligned"

\* The runes of the strings written, in the order written.
RECURSIVE Written(_)
Written(out) == IF out = <<>> THEN <<>> ELSE Head(out).text \o Written(Tail(out))

\* The string with every "\r\n", lone '\r' and lone '\n' replaced by one
\* '\n': a '\n' behind a '\r' is dropped, a '\r' becomes a '\n'.
OneLineFeedPerBreak(str) ==
    LET pairs == [i \in DOMAIN str |->
                     <<str[i], IF i = 1 THEN "a" ELSE str[i - 1]>>]
        Kept(p) == ~(p[1] = "LF" /\ p[2] = "CR")
        kept == SelectSeq(pairs, Kept)
    IN  [i \in DOMAIN kept |-> IF kept[i][1] = "CR" THEN "LF" ELSE kept[i][1]]

\* C19: what encodeText writes for a field string in TEXT format is the
\* string with every "\r\n", lone '\r' and lone '\n' replaced by one '\n',
\* in the same order; every '\n' is written as it is, outside the strings
\* given to palette.Render; a string given to palette.Render is not empty,
\* holds no '\r' and no '\n', and is not followed by another rendered
\* string, so it is a maximal run.
C19_RenderNeverCrossesLineBreak ==
    (cvOut.fn = "encodeText.Render" /\ cvIn.Format = "TEXT") =>
        /\ Written(cvOut.str) = OneLineFeedPerBreak(cvIn.str)
        /\ \A i \in DOMAIN cvOut.str :
              IF cvOut.str[i].by = "palette.Render"
              THEN /\ cvOut.str[i].text # <<>>
                   /\ \A k \in DOMAIN cvOut.str[i].text :
                         cvOut.str[i].text[k] \notin {"CR", "LF"}
                   /\ i < Len(cvOut.str) => cvOut.str[i + 1].by = "WriteByte"
              ELSE cvOut.str[i].text = <<"LF">>

\* The string a "\r\n" a '\r' has been written as a, '\n', a, '\n'.
C19_Witness ==
    /\ cvOut.fn = "encodeText.Render"
    /\ cvIn.Format = "TEXT"
    /\ cvIn.str = <<"a", "CR", "LF", "a">>
    /\ cvOut.str = <<Rendered(<<"a">>), LineFeed, Rendered(<<"a">>)>>

\* C20: when encodeJson has run the encoder, the encoder was given the
\* palette if and only if PrettyPrint and Color are both set, and on return
\* the palette is enabled if and only if Color is set, whatever its state
\* before the call and after Encode, and whether or not the write failed.
C20_JsonPaletteFollowsOptions ==
    (cvOut.fn = "encodeJson" /\ cvOut.encoded) =>
        /\ cvOut.Palette = "palette" <=> (cvIn.PrettyPrint /\ cvIn.Color)
        /\ cvOut.paletteEnabled <=> cvIn.Color

\* Colour without pretty printing on a disabled palette: the encoder has
\* run without the palette, and the palette is enabled on return.
C20_Witness ==
    /\ cvOut.fn = "encodeJson" /\ cvOut.encoded
    /\ cvIn.Color /\ ~cvIn.PrettyPrint /\ ~cvIn.paletteEnabled
    /\ cvOut.Palette = "nil"
    /\ cvOut.paletteEnabled

\* C21: encodeLTSV writes one line per record, every field of it labelled
\* with the column name of the view's header at the field's position, and
\* what it returns and writes does not depend on options.WithoutHeader.
C21_LTSVAlwaysLabelled ==
    cvOut.fn = "encodeLTSV" =>
        /\ Len(cvOut.ret.lines) = Len(cvIn.view.RecordSet)
        /\ \A i \in DOMAIN cvOut.ret.lines :
              /\ DOMAIN cvOut.ret.lines[i] = DOMAIN cvIn.view.Header
              /\ \A j \in DOMAIN cvOut.ret.lines[i] :
                    cvOut.ret.lines[i][j].label = cvIn.view.Header[j]
        /\ \A withoutHeader \in BOOLEAN :
              cvOut.ret = encodeLTSV(cvIn.view, [WithoutHeader |-> withoutHeader])

\* Two records of two columns written with their labels under
\* WithoutHeader.
C21_Witness ==
    /\ cvOut.fn = "encodeLTSV"
    /\ cvIn.options.WithoutHeader
    /\ cvIn.view.Header = <<"id", "name">>
    /\ Len(cvOut.ret.lines) = 2
    /\ cvOut.ret.lines[2][2].label = "name"

\* The format each extension of the output files stands for, whatever its
\* case; "" for the extensions that stand for none and for no extension.
InferredFormat(ext) ==
    CASE ext = ".csv" -> "CSV"
      [] ext = ".TSV" -> "TSV"
      [] ext = ".json" -> "JSON"
      [] ext = ".ltsv" -> "LTSV"
      [] ext = ".Md" -> "GFM"
      [] ext = ".org" -> "ORG"
      [] OTHER -> ""

\* The last part of the path when it is an extension.
LastExtension(outfile) ==
    IF outfile = <<>> THEN "" ELSE outfile[Len(outfile)]

\* C22: SetFormat with an empty format string sets ExportOptions.Format to
\* the format the extension of the output file stands for, in any case, and
\* returns nil; for any other extension or none it returns nil and leaves
\* the format as it was; with a non-empty format string the step is the
\* step taken with no output file at all.
C22_FormatInferredFromExtension ==
    [][\A s \in FormatNames, outfile \in OutFiles :
          SetFormat(s, outfile) =>
             IF s = ""
             THEN /\ flagErr' = NoError
                  /\ flags'.ExportOptions.Format =
                        IF InferredFormat(LastExtension(outfile)) # ""
                        THEN InferredFormat(LastExtension(outfile))
                        ELSE flags.ExportOptions.Format
             ELSE SetFormat(s, <<>>)]_vars

\* The format is GFM, which the default TEXT becomes by an output file
\* ending in .Md or by the format string GFM.
C22_Witness ==
    /\ flags.ExportOptions.Format = "GFM"
    /\ flags.ExportOptions.JsonEscape = "Backslash"
    /\ flagErr = NoError

\* C23: ImportOptions.Format is always one of CSV, TSV, FIXED, JSON, LTSV,
\* and SetImportFormat with any other name returns an error and leaves the
\* import format as it was.
C23_ImportFormatInImportSet ==
    /\ [](flags.ImportOptions.Format \in ImportFormats)
    /\ [][\A s \in FormatNames \ ImportFormats :
             SetImportFormat(s) =>
                /\ flagErr' # NoError
                /\ flags'.ImportOptions.Format = flags.ImportOptions.Format]_vars

\* SetImportFormat has refused a name after the import format was set to
\* LTSV.
C23_Witness ==
    /\ flagErr = ImportFormatError
    /\ flags.ImportOptions.Format = "LTSV"

\* C24: Flags.WaitTimeout is always >= 0.
C24_WaitTimeoutNeverNegative ==
    ~FloatLess(flags.WaitTimeout, Float(0)) /\ ~flags.WaitTimeout.nan

\* C25: LimitRecursion is 1000 after NewFlags and always >= -1; a
\* SetLimitRecursion stores -1 for every negative argument and every other
\* argument as given.
C25_LimitRecursionNormalised ==
    /\ flags.LimitRecursion = 1000
    /\ [](flags.LimitRecursion >= -1)
    /\ [][\A i \in -MaxSetting..MaxSetting :
             SetLimitRecursion(i) =>
                flags'.LimitRecursion = IF i < 0 THEN -1 ELSE i]_vars

\* The limit is disabled.
C25_Witness == flags.LimitRecursion = -1

\* The greater of two numbers.
Max(a, b) == IF a < b THEN b ELSE a

\* C26: CPU is max(1, NumCPU / 2) after NewFlags and always between 1 and
\* NumCPU; a SetCPU stores 1 for an argument below 1, NumCPU for an argument
\* above NumCPU and every other argument as given.
C26_CPUBounded ==
    /\ flags.CPU = Max(1, NumCPU \div 2)
    /\ [](1 <= flags.CPU /\ flags.CPU <= NumCPU)
    /\ [][\A i \in -1..(MaxNumCPU + 1) :
             SetCPU(i) =>
                flags'.CPU = IF i < 1 THEN 1
                             ELSE IF i > NumCPU THEN NumCPU ELSE i]_vars

\* Every CPU of the machine is in use, which the default never gives on a
\* machine with three.
C26_Witness == NumCPU = MaxNumCPU /\ flags.CPU = NumCPU

CursorOps ==
    {"OpenCursor", "CloseCursor", "FetchCursor", "CursorIsInRange",
     "CursorCount"}

\* The indexes of the blocks of scope s that declare cursor n.
DeclaringBlocks(s, n) ==
    {i \in DOMAIN scopes[s].blocks :
        blockHeap[scopes[s].blocks[i]].cursors[n] # Absent}

\* C27: OpenCursor, CloseCursor, FetchCursor, CursorIsInRange and
\* CursorCount answer with the undeclared-cursor error and change no cursor
\* when no block of the scope declares the name.  Otherwise the answer is
\* that of the declaring block nearest to index 0, success or error (an open
\* cursor refuses to be opened, a closed one to be fetched, ranged or
\* counted), and no cursor but the one of that block changes.
C27_CursorOpsUseInnermostDeclaration ==
    [][ret'.op \in CursorOps =>
          LET s == ret'.scope
              n == ret'.name
              declaring == DeclaringBlocks(s, n)
          IN  IF declaring = {}
              THEN /\ ret'.err = UndeclaredCursorError
                   /\ cursorHeap' = cursorHeap
              ELSE LET i == CHOOSE k \in declaring :
                                \A j \in declaring : k <= j
                       b == scopes[s].blocks[i]
                       cur == cursorHeap[b][n]
                   IN  /\ ret'.hit = i
                       /\ ret'.err =
                             CASE ret'.op = "OpenCursor" ->
                                    IF cur.open THEN CursorOpenError
                                    ELSE NoError
                               [] ret'.op = "CloseCursor" -> NoError
                               [] OTHER ->
                                    IF cur.open THEN NoError
                                    ELSE CursorClosedError
                       /\ \A b2 \in BlockIds, n2 \in Names :
                             (b2 # b \/ n2 # n) =>
                                cursorHeap'[b2][n2] = cursorHeap[b2][n2]
                       /\ (ret'.op = "CursorCount" /\ ret'.err = NoError) =>
                             ret'.val = cur.len
      ]_vars

\* A fetch in a child scope was refused by the closed cursor of the child's
\* block while the outer block holds an open cursor of the same name.
C27_Witness ==
    /\ ret.op = "FetchCursor" /\ ret.err = CursorClosedError /\ ret.hit = 1
    /\ LET blocks == scopes[ret.scope].blocks
       IN  /\ Len(blocks) = 2
           /\ blockHeap[blocks[2]].cursors[ret.name] # Absent
           /\ cursorHeap[blocks[2]][ret.name].open

(***************************************************************************)
(* Properties of the node stack                                            *)
(***************************************************************************)
\* The indexes of the nodes of scope s that hold n in the map of the
\* session's kind.
HoldingNodes(s, n) ==
    {i \in DOMAIN scopes[s].nodes : nodeHeap[scopes[s].nodes[i]][kind][n] # Absent}

\* What a read of n through scope s is to return: the entry of the holding
\* node nearest to index 0.
NearestNodeEntry(s, n) ==
    IF HoldingNodes(s, n) = {} THEN Absent
    ELSE nodeHeap[scopes[s].nodes[CHOOSE i \in HoldingNodes(s, n) :
                         \A j \in HoldingNodes(s, n) : i <= j]][kind][n]

NodeRead(s, n) ==
    IF kind = "inlineTables" THEN GetInlineTable(s, n) ELSE GetAlias(s, n)

\* C28: CreateNode returns a scope whose node 0 is an empty node that is not
\* on the parent's stack, followed by the parent's nodes, and changes no
\* other scope.  SetInlineTable, StoreInlineTable and AddAlias change the
\* receiver's node 0 only, so what a scope without that node reads stays as
\* it was.  GetInlineTable and GetAlias return the entry of the holding node
\* nearest to index 0, or their error when no node holds the name, and
\* InlineTableExists tells whether some node holds it.
C28_NodeStackShadows ==
    /\ [](\A s \in ScopeIds, n \in Names :
             Exists(s) =>
                /\ NodeRead(s, n).val = NearestNodeEntry(s, n)
                /\ NodeRead(s, n).err = NoError <=> HoldingNodes(s, n) # {}
                /\ kind = "inlineTables" =>
                      (InlineTableExists(s, n) <=> HoldingNodes(s, n) # {}))
    /\ [][\A s, t \in ScopeIds :
             CreateNode(s, t) =>
                /\ Len(scopes'[t].nodes) = Len(scopes[s].nodes) + 1
                /\ Tail(scopes'[t].nodes) = scopes[s].nodes
                /\ scopes'[t].nodes[1] \notin Range(scopes[s].nodes)
                /\ nodeHeap'[scopes'[t].nodes[1]] = NewNodeScope
                /\ \A u \in ScopeIds \ {t} : scopes'[u] = scopes[u]]_vars
    /\ [][ret'.op \in {"SetInlineTable", "StoreInlineTable", "AddAlias"} =>
             LET s == ret'.scope
             IN  /\ \A m \in NodeIds \ {scopes[s].nodes[1]} :
                       nodeHeap'[m] = nodeHeap[m]
                 /\ \A u \in ScopeIds, n \in Names :
                       (Exists(u) /\ scopes[s].nodes[1] \notin Range(scopes[u].nodes))
                          => NodeRead(u, n)' = NodeRead(u, n)]_vars

\* The inner scope reads its own inline table while the outer scope, which
\* defined one of the same name in its node, reads the outer one.
C28_Witness ==
    /\ kind = "inlineTables"
    /\ Exists(1) /\ Exists(2)
    /\ Len(scopes[2].nodes) = 2 /\ Tail(scopes[2].nodes) = scopes[1].nodes
    /\ ret.op \in {"SetInlineTable", "StoreInlineTable"} /\ ret.scope = 2
    /\ GetInlineTable(2, "a") = [val |-> "view2", err |-> NoError]
    /\ GetInlineTable(1, "a") = [val |-> "view1", err |-> NoError]

(***************************************************************************)
(* Properties of sequential evaluation                                     *)
(***************************************************************************)
\* C29: the scope CreateScopeForSequentialEvaluation returns stands before
\* record 0 of the view (recordIndex -1).  NextRecord moves Records[0] on by
\* one and changes nothing else; it returns true when the new recordIndex is
\* one of 0 .. N-1, N being the number of the view's records, and false from
\* N on, so it returns true N times, for 0, 1, ..., N-1 in that order, and
\* false on every later call; IsInRange holds on Records[0] after the call
\* exactly when the call returned true.
C29_NextRecordVisitsEachRecordOnce ==
    /\ [][\A s, t \in ScopeIds, view \in ViewIds :
             CreateScopeForSequentialEvaluation(s, t, view) =>
                /\ scopes'[t].Records[1].view = view
                /\ scopes'[t].Records[1].recordIndex = -1]_vars
    /\ [][(ret'.op = "NextRecord" /\ ret'.err = NoError) =>
             LET s == ret'.scope
                 before == scopes[s].Records[1]
                 after == scopes'[s].Records[1]
                 N == viewLen[before.view]
             IN  /\ after = [before EXCEPT !.recordIndex = before.recordIndex + 1]
                 /\ Tail(scopes'[s].Records) = Tail(scopes[s].Records)
                 /\ \A u \in ScopeIds \ {s} : scopes'[u] = scopes[u]
                 /\ scopes'[s].blocks = scopes[s].blocks
                 /\ scopes'[s].nodes = scopes[s].nodes
                 /\ ret'.val = "true" <=> after.recordIndex \in 0..(N - 1)
                 /\ ret'.val = "false" <=> after.recordIndex >= N
                 /\ IsInRange(after) <=> ret'.val = "true"]_vars

\* The last of the records of the inner view has been passed under an
\* outer record: NextRecord has returned false for the first time.
C29_Witness ==
    /\ ret.op = "NextRecord" /\ ret.val = "false"
    /\ Len(scopes[ret.scope].Records) = 2
    /\ viewLen[scopes[ret.scope].Records[1].view] = MaxViewRecords
    /\ scopes[ret.scope].Records[1].recordIndex = MaxViewRecords
    /\ scopes[ret.scope].Records[2].recordIndex = 0

\* C30: no expression is found in a new cache, and after Add(e, i) Get(e)
\* returns (i, true) while Get of every other expression returns what it
\* returned before, whether or not e had been added before and in either
\* representation.
C30_GetReturnsMostRecentAdd ==
    /\ \A e \in RepeatedExprs : ~FieldIndexCacheGet(cacheHeap[1], e).ok
    /\ [][\A e \in RepeatedExprs, i \in 0..1 :
             CacheAddUnchecked(1, e, i) =>
                /\ FieldIndexCacheGet(cacheHeap[1], e)' = [idx |-> i, ok |-> TRUE]
                /\ \A other \in RepeatedExprs \ {e} :
                      FieldIndexCacheGet(cacheHeap[1], other)' =
                         FieldIndexCacheGet(cacheHeap[1], other)]_vars

C32_ChildStartsWithoutNodesAndRecords ==
    /\ [](\A s \in ScopeIds :
             scopes[s].origin = "child" =>
                /\ scopes[s].nodes = <<>>
                /\ scopes[s].Records = <<>>
                /\ \A n \in Names :
                      /\ GetInlineTable(s, n) =
                            [val |-> Absent, err |-> UndefinedInLineTableError]
                      /\ ~InlineTableExists(s, n)
                      /\ GetAlias(s, n) =
                            [val |-> Absent, err |-> TableNotLoadedError])
    /\ [][\A s, t \in ScopeIds :
             (Exists(s) /\ ~Exists(t) /\ ret'.op = "CreateChild" /\ ret'.scope = t) =>
                scopes'[t].env = scopes[s].env]_vars

\* A child of a recursive query's scope that holds a name and a record
\* frame: the child has neither, and has the parent's other fields.
C32_Witness ==
    /\ scopes[2].origin = "child"
    /\ Len(scopes[1].Records) > 0
    /\ \E n \in Names : InlineTableExists(1, n) \/ GetAlias(1, n).err = NoError
    /\ scopes[1].env.RecursiveTable = 1
    /\ scopes[1].env.cachedFilePath = 1
    /\ scopes[2].env = scopes[1].env

(***************************************************************************)
(* Frame of commit and rollback                                            *)
(***************************************************************************)
\* The map entries (block, key) of the blocks of scope s whose key is in u.
EntriesInSet(s, u) ==
    {p \in Range(scopes[s].blocks) \X u :
        blockHeap[p[1]].temporaryTables[p[2]] # Absent}

ViewsInSet(s, u) ==
    {blockHeap[p[1]].temporaryTables[p[2]] : p \in EntriesInSet(s, u)}

OneMessagePerEntry(s, u, list) ==
    /\ DOMAIN list.views = ViewsInSet(s, u)
    /\ \A v \in ViewsInSet(s, u) :
          list.views[v] =
             Cardinality({p \in EntriesInSet(s, u) :
                             blockHeap[p[1]].temporaryTables[p[2]] = v})

\* C33: StoreTemporaryTable gives a restore point to exactly the tables that
\* are not the stdin view and are held, in any block of the scope, under a
\* key of the uncommitted-views set, and changes no block;
\* RestoreTemporaryTable restores exactly those tables and removes from its
\* block exactly the stdin view held under such a key; every other table
\* keeps its contents and its restore point and every other map entry
\* stays; the returned list has one message for each entry acted on.
C33_CommitRollbackTouchOnlyUncommitted ==
    [][/\ ret'.op = "StoreTemporaryTable" =>
             LET s == ret'.scope
                 u == uncomittedViews'
             IN  /\ blockHeap' = blockHeap
                 /\ \A v \in Views :
                       viewHeap'[v] =
                          IF v \in ViewsInSet(s, u) /\ ~viewHeap[v].isStdin
                          THEN [viewHeap[v] EXCEPT !.restorePoint = viewHeap[v].contents]
                          ELSE viewHeap[v]
                 /\ OneMessagePerEntry(s, u, ret'.msglist)
       /\ ret'.op = "RestoreTemporaryTable" =>
             LET s == ret'.scope
                 u == uncomittedViews'
             IN  /\ \A v \in Views :
                       viewHeap'[v] =
                          IF v \in ViewsInSet(s, u) /\ ~viewHeap[v].isStdin
                          THEN [viewHeap[v] EXCEPT !.contents = viewHeap[v].restorePoint]
                          ELSE viewHeap[v]
                 /\ \A b \in BlockIds :
                       blockHeap'[b] =
                          [blockHeap[b] EXCEPT !.temporaryTables =
                             [n \in Names |->
                                IF /\ <<b, n>> \in EntriesInSet(s, u)
                                   /\ viewHeap[blockHeap[b].temporaryTables[n]].isStdin
                                THEN Absent
                                ELSE blockHeap[b].temporaryTables[n]]]
                 /\ OneMessagePerEntry(s, u, ret'.msglist)]_vars

\* A rollback through the outer scope has restored the outer block's table
\* and returned one message, while the table of the child's block, which is
\* not in the outer scope's stack, has its changed contents and no restore
\* point.
C33_Witness ==
    /\ ret.op = "RestoreTemporaryTable" /\ ret.scope = 1
    /\ uncomittedViews = {"a"}
    /\ scopes[1].blocks = <<1>> /\ scopes[2].blocks = <<2, 1>>
    /\ blockHeap[1].temporaryTables["a"] = "view1"
    /\ blockHeap[2].temporaryTables["a"] = "view2"
    /\ ~viewHeap["view2"].isStdin
    /\ viewHeap["view1"].restorePoint = "rows1"
    /\ viewHeap["view1"].contents = "rows1"
    /\ viewHeap["view2"] = [NewView(FALSE) EXCEPT !.contents = "rows1"]
    /\ ret.msglist.views = [v \in {"view1"} |-> 1]

\* A rollback has removed the stdin view from the child's block.
C33_WitnessStdin ==
    /\ ret.op = "RestoreTemporaryTable" /\ ret.scope = 2
    /\ viewHeap["view2"].isStdin
    /\ ret.msglist.views = [v \in {"view2"} |-> 1]
    /\ blockHeap[scopes[2].blocks[1]].temporaryTables["a"] = Absent

(***************************************************************************)
(* Empty output                                                            *)
(***************************************************************************)
\* C34: when the CSV, fixed-length, LTSV, GFM or ORG encoder has returned,
\* it has returned success only if the header line or a record was handed
\* to the writer, and DataEmpty only if neither was; and an encoder with
\* no record and no header line to write has not returned success.
C34_EmptyOutputIsDataEmpty ==
    (encPc = "done" /\ encOpt.format \in {"CSV", "TSV", "FIXED", "LTSV", "GFM", "ORG"}) =>
        /\ encRet = NoError => (encHeader \/ encWritten > 0)
        /\ encRet = DataEmpty => (~encHeader /\ encWritten = 0)

\* C35: SetFormat with an empty format string and an output file whose
\* extension stands for a format changes ExportOptions.Format and nothing
\* else: ExportOptions.JsonEscape and every other field of Flags are as
\* before the call.
C35_InferredFormatChangesFormatOnly ==
    [][\A outfile \in OutFiles :
          (SetFormat("", outfile) /\ InferredFormat(LastExtension(outfile)) # "") =>
             flags' = [flags EXCEPT !.ExportOptions.Format =
                                       InferredFormat(LastExtension(outfile))]]_vars

\* C36: a setter of Flags that returns an error leaves every field of
\* Flags, and the package's time zone, as they were before the call.
C36_RejectedOptionChangesNothing ==
    [][flagErr' # NoError => (flags' = flags /\ location' = location)]_vars

\* SetFormat has rejected a format name after other options had been set:
\* they are as they were set.
C36_Witness ==
    /\ flagErr = FormatError
    /\ flags.Location = "UTC" /\ location = "UTC"
    /\ flags.Repository = "repo"
    /\ flags.ExportOptions.JsonEscape = "HexDigits"
    /\ flags.ExportOptions.Format = "JSON"
    /\ flags.ImportOptions.SingleLine
    /\ flags.ExportOptions.LineBreak = "CRLF"

InitComplete ==
    /\ ScopeIdle /\ EncodeIdle /\ WorkerIdle /\ TablesIdle /\ ConvertIdle
    /\ CursorsIdle /\ FlagsIdle /\ IterateIdle /\ RuneBufferIdle
    /\ CompleterInit

SpecComplete == InitComplete /\ [][CompleteNext]_vars

\* C37: on a completer with width > 0, select mode implies complete mode,
\* in select mode the candidate list is non-empty and candidateChoise
\* indexes it, and no key divides by zero or indexes outside the list.
C37_SelectionStaysValid ==
    /\ completer.panic = ""
    /\ completer.inSelectMode => completer.inCompleteMode
    /\ completer.inSelectMode =>
          /\ Len(completer.candidates) > 0
          /\ 0 <= completer.candidateChoise
          /\ completer.candidateChoise < Len(completer.candidates)

\* ---------------------------------------------------------------------
\* The operations of RuneBuffer.  Refresh(f) runs f between clearing and
\* printing the line; the terminal output is not modelled.

LineRunes == {"a", " "}

\* The zero rune of a newly allocated array.
ZeroRune == "NUL"

SliceOutOfRange == "slice bounds out of range"

LineInputs == UNION {[1..n -> LineRunes] : n \in 1..2}

IsWordBreak(ch) == ch # "a"

BufRunes(b) == SubSeq(b.arr, 1, b.len)

BufPanicked(why) == [NewRuneBuffer EXCEPT !.panic = why]

\* The backup once r.buf is given another backing array.
Detached(b) ==
    IF b.bck.nil \/ ~b.bck.shared THEN b.bck
    ELSE [b.bck EXCEPT !.shared = FALSE, !.arr = b.arr]

\* r.buf = append(r.buf[:i], xs...), for i within the capacity: in place
\* when the capacity suffices, else in a new array with room for slack
\* more runes.
AppendAt(b, i, xs, slack) ==
    LET need == i + Len(xs)
    IN  IF need <= Len(b.arr)
        THEN [b EXCEPT !.arr = SubSeq(b.arr, 1, i) \o xs
                                 \o SubSeq(b.arr, need + 1, Len(b.arr)),
                       !.len = need]
        ELSE [b EXCEPT !.arr = SubSeq(b.arr, 1, i) \o xs
                                 \o [k \in 1..slack |-> ZeroRune],
                       !.len = need,
                       !.bck = Detached(b)]

pushKill(b, text) == [b EXCEPT !.lastKill = text]

MoveToLineStartResult(b) == [b EXCEPT !.idx = 0]

MoveBackwardResult(b) == IF b.idx = 0 THEN b ELSE [b EXCEPT !.idx = b.idx - 1]

WriteRunesResult(b, s, slack) ==
    IF b.idx > b.len THEN BufPanicked(SliceOutOfRange)
    ELSE LET tail == s \o SubSeq(b.arr, b.idx + 1, b.len)
         IN  [AppendAt(b, b.idx, tail, slack) EXCEPT !.idx = b.idx + Len(s)]

MoveForwardResult(b) ==
    IF b.idx = b.len THEN b ELSE [b EXCEPT !.idx = b.idx + 1]

ReplaceResult(b, ch) ==
    IF b.idx >= b.len THEN BufPanicked(IndexOutOfRangePanic)
    ELSE [b EXCEPT !.arr[b.idx + 1] = ch]

EraseResult(b) ==
    [pushKill(b, BufRunes(b)) EXCEPT !.idx = 0, !.len = 0]

\* Beyond the end, r.buf[r.idx+1:] is out of range.
DeleteResult(b) ==
    IF b.idx = b.len THEN b
    ELSE IF b.idx > b.len THEN BufPanicked(SliceOutOfRange)
    ELSE AppendAt(pushKill(b, <<b.arr[b.idx + 1]>>), b.idx,
                  SubSeq(b.arr, b.idx + 2, b.len), 0)

\* The start of the word before the cursor: the largest i in 1..idx-1 with
\* buf[i] in a word and buf[i-1] a break, or 0.
WordStartsBefore(b) ==
    {i \in 1..(b.idx - 1) :
        ~IsWordBreak(b.arr[i + 1]) /\ IsWordBreak(b.arr[i])}

Largest(S) == CHOOSE i \in S : \A j \in S : j <= i

Smallest(S) == CHOOSE i \in S : \A j \in S : i <= j

\* The loop reads r.buf[r.idx-1] first, which is out of range beyond the
\* end.
MoveToPrevWordResult(b) ==
    IF b.idx = 0 THEN b
    ELSE IF b.idx - 1 > 0 /\ b.idx - 1 >= b.len
         THEN BufPanicked(IndexOutOfRangePanic)
    ELSE IF WordStartsBefore(b) # {}
         THEN [b EXCEPT !.idx = Largest(WordStartsBefore(b))]
    ELSE [b EXCEPT !.idx = 0]

\* Beyond the end, length is negative and r.buf[:length] is out of range.
KillFrontResult(b) ==
    IF b.idx = 0 THEN b
    ELSE IF b.idx > b.len THEN BufPanicked(SliceOutOfRange)
    ELSE LET length == b.len - b.idx
         IN  [pushKill(b, SubSeq(b.arr, 1, b.idx)) EXCEPT
                  !.arr = SubSeq(b.arr, b.idx + 1, b.len)
                          \o SubSeq(b.arr, length + 1, Len(b.arr)),
                  !.idx = 0,
                  !.len = length]

KillResult(b) ==
    IF b.idx > b.len THEN BufPanicked(SliceOutOfRange)
    ELSE [pushKill(b, SubSeq(b.arr, b.idx + 1, b.len)) EXCEPT !.len = b.idx]

TransposeResult(b) ==
    LET c == IF b.len = 1 THEN [b EXCEPT !.idx = b.idx + 1] ELSE b
    IN  IF c.len < 2 THEN c
        ELSE LET i == IF c.idx = 0 THEN 1
                      ELSE IF c.idx >= c.len THEN c.len - 1
                      ELSE c.idx
             IN  [c EXCEPT !.arr[i + 1] = c.arr[i], !.arr[i] = c.arr[i + 1],
                           !.idx = i + 1]

WordStartsAfter(b) ==
    {i \in (b.idx + 1)..(b.len - 1) :
        ~IsWordBreak(b.arr[i + 1]) /\ IsWordBreak(b.arr[i])}

MoveToNextWordResult(b) ==
    IF WordStartsAfter(b) # {}
    THEN [b EXCEPT !.idx = Smallest(WordStartsAfter(b))]
    ELSE [b EXCEPT !.idx = b.len]

BackEscapeWordResult(b) ==
    IF b.idx = 0 THEN b
    ELSE IF b.idx - 1 > 0 /\ b.idx - 1 >= b.len
         THEN BufPanicked(IndexOutOfRangePanic)
    ELSE IF WordStartsBefore(b) # {}
         THEN LET i == Largest(WordStartsBefore(b))
              IN  [AppendAt(pushKill(b, SubSeq(b.arr, i + 1, b.idx)), i,
                            SubSeq(b.arr, b.idx + 1, b.len), 0)
                      EXCEPT !.idx = i]
    ELSE [b EXCEPT !.len = 0, !.idx = 0]

\* The runes go to a new array of exactly the length needed.
YankResult(b) ==
    IF Len(b.lastKill) = 0 THEN b
    ELSE IF b.idx > b.len THEN BufPanicked(SliceOutOfRange)
    ELSE [b EXCEPT !.arr = SubSeq(b.arr, 1, b.idx) \o b.lastKill
                            \o SubSeq(b.arr, b.idx + 1, b.len),
                   !.len = b.len + Len(b.lastKill),
                   !.idx = b.idx + Len(b.lastKill),
                   !.bck = Detached(b)]

BackspaceResult(b) ==
    IF b.idx = 0 THEN b
    ELSE IF b.idx > b.len THEN BufPanicked(SliceOutOfRange)
    ELSE [AppendAt(b, b.idx - 1, SubSeq(b.arr, b.idx + 1, b.len), 0)
             EXCEPT !.idx = b.idx - 1]

MoveToLineEndResult(b) == [b EXCEPT !.idx = b.len]

MoveToResult(b, ch, prevChar, reverse) ==
    IF reverse
    THEN LET hits == {i \in 0..(b.idx - 1) : i < b.len /\ b.arr[i + 1] = ch}
         IN  IF b.idx - 1 >= 0 /\ b.idx - 1 >= b.len
             THEN BufPanicked(IndexOutOfRangePanic)
             ELSE IF hits = {} THEN b
             ELSE [b EXCEPT !.idx = Largest(hits)
                                    + IF prevChar THEN 1 ELSE 0]
    ELSE LET hits == {i \in (b.idx + 1)..(b.len - 1) : b.arr[i + 1] = ch}
         IN  IF hits = {} THEN b
             ELSE [b EXCEPT !.idx = Smallest(hits)
                                    - IF prevChar THEN 1 ELSE 0]

BackupResult(b) ==
    [b EXCEPT !.bck = [nil |-> FALSE, shared |-> TRUE, arr |-> <<>>,
                       len |-> b.len, idx |-> b.idx, saved |-> BufRunes(b)]]

RestoreResult(b) ==
    IF b.bck.nil THEN b
    ELSE IF b.bck.shared THEN [b EXCEPT !.len = b.bck.len, !.idx = b.bck.idx]
    ELSE [b EXCEPT !.arr = b.bck.arr, !.len = b.bck.len, !.idx = b.bck.idx,
                   !.bck.shared = TRUE, !.bck.arr = <<>>]

BufferFrame ==
    UNCHANGED <<scopeVars, encVars, workerVars, tableVars, convertVars,
                cursorVars, flagVars, iterVars, completer>>

\* The calls are taken while the goroutine has not panicked; the line is
\* kept within MaxLine runes and the cursor within one place beyond it.
Admitted(result) ==
    /\ runeBuffer.panic = ""
    /\ result.len <= MaxLine /\ Len(result.arr) <= MaxLine
    /\ result.idx <= MaxLine + 1

WriteRunes ==
    \E s \in LineInputs, slack \in 0..1 :
        LET b == WriteRunesResult(runeBuffer, s, slack)
        IN  Admitted(b) /\ runeBuffer' = b /\ BufferFrame

Backspace ==
    LET b == BackspaceResult(runeBuffer)
    IN  Admitted(b) /\ runeBuffer' = b /\ BufferFrame

Delete ==
    LET b == DeleteResult(runeBuffer)
    IN  Admitted(b) /\ runeBuffer' = b /\ BufferFrame

Kill ==
    LET b == KillResult(runeBuffer)
    IN  Admitted(b) /\ runeBuffer' = b /\ BufferFrame

KillFront ==
    LET b == KillFrontResult(runeBuffer)
    IN  Admitted(b) /\ runeBuffer' = b /\ BufferFrame

Erase ==
    LET b == EraseResult(runeBuffer)
    IN  Admitted(b) /\ runeBuffer' = b /\ BufferFrame

Transpose ==
    LET b == TransposeResult(runeBuffer)
    IN  Admitted(b) /\ runeBuffer' = b /\ BufferFrame

Yank ==
    LET b == YankResult(runeBuffer)
    IN  Admitted(b) /\ runeBuffer' = b /\ BufferFrame

MoveForward ==
    LET b == MoveForwardResult(runeBuffer)
    IN  Admitted(b) /\ runeBuffer' = b /\ BufferFrame

MoveBackward ==
    LET b == MoveBackwardResult(runeBuffer)
    IN  Admitted(b) /\ runeBuffer' = b /\ BufferFrame

MoveToLineStart ==
    LET b == MoveToLineStartResult(runeBuffer)
    IN  Admitted(b) /\ runeBuffer' = b /\ BufferFrame

MoveToLineEnd ==
    LET b == MoveToLineEndResult(runeBuffer)
    IN  Admitted(b) /\ runeBuffer' = b /\ BufferFrame

MoveToPrevWord ==
    LET b == MoveToPrevWordResult(runeBuffer)
    IN  Admitted(b) /\ runeBuffer' = b /\ BufferFrame

MoveToNextWord ==
    LET b == MoveToNextWordResult(runeBuffer)
    IN  Admitted(b) /\ runeBuffer' = b /\ BufferFrame

BackEscapeWord ==
    LET b == BackEscapeWordResult(runeBuffer)
    IN  Admitted(b) /\ runeBuffer' = b /\ BufferFrame

MoveTo ==
    \E ch \in LineRunes, prevChar, reverse \in BOOLEAN :
        LET b == MoveToResult(runeBuffer, ch, prevChar, reverse)
        IN  Admitted(b) /\ runeBuffer' = b /\ BufferFrame

Replace ==
    \E ch \in LineRunes :
        LET b == ReplaceResult(runeBuffer, ch)
        IN  Admitted(b) /\ runeBuffer' = b /\ BufferFrame

Backup ==
    LET b == BackupResult(runeBuffer)
    IN  Admitted(b) /\ runeBuffer' = b /\ BufferFrame

RuneBufferRestore ==
    LET b == RestoreResult(runeBuffer)
    IN  Admitted(b) /\ runeBuffer' = b /\ BufferFrame

EditNext ==
    \/ WriteRunes \/ Backspace \/ Delete \/ Kill \/ KillFront \/ Erase
    \/ Transpose \/ Yank \/ MoveForward \/ MoveBackward \/ MoveToLineStart
    \/ MoveToLineEnd \/ MoveToPrevWord \/ MoveToNextWord \/ BackEscapeWord
    \/ MoveTo

BackupNext ==
    \/ Backup \/ RuneBufferRestore \/ Replace \/ Transpose \/ KillFront
    \/ WriteRunes \/ Backspace \/ Delete \/ MoveBackward

InitRuneBuffer ==
    /\ ScopeIdle /\ EncodeIdle /\ WorkerIdle /\ TablesIdle /\ ConvertIdle
    /\ CursorsIdle /\ FlagsIdle /\ IterateIdle /\ CompleterIdle
    /\ RuneBufferInit

SpecRuneBuffer == InitRuneBuffer /\ [][EditNext]_vars

SpecBackup == InitRuneBuffer /\ [][BackupNext]_vars

\* C38: after any sequence of editing operations on an empty buffer the
\* cursor is inside the line, 0 <= idx <= len(buf).
C38_CursorInsideLine ==
    /\ runeBuffer.panic = ""
    /\ 0 <= runeBuffer.idx /\ runeBuffer.idx <= runeBuffer.len

\* C39: Restore after Backup returns the buffer to the runes and the
\* cursor index it had when Backup was called, whatever edits ran in
\* between; Restore without an earlier Backup changes neither.
C39_RestoreReturnsBackup ==
    [][RuneBufferRestore =>
          IF runeBuffer.bck.nil
          THEN /\ BufRunes(runeBuffer') = BufRunes(runeBuffer)
               /\ runeBuffer'.idx = runeBuffer.idx
          ELSE /\ BufRunes(runeBuffer') = runeBuffer.bck.saved
               /\ runeBuffer'.idx = runeBuffer.bck.idx]_vars



====
